---- MODULE Spec2Model ----
(***************************************************************************)
(* A model of the markdown documenter: the Hierarchy Resolver (type table  *)
(* and inheritance graph), the Member Resolver, the hierarchy diagrams and *)
(* the Page Router of src/documenters/markdownDocumenter.ts.               *)
(***************************************************************************)
EXTENDS Integers, Sequences, FiniteSets, TLC

VARIABLES
  forest,          \* the declaration forest of the package (read-only input)
  pc,              \* position inside generateFiles
  typeMap,         \* Map<string, ApiItem>: scoped name -> declaration
  log,             \* the lines written with console.log
  visited,         \* declarations in the order _generateTypeMapping shifted them
  inheritanceMap,  \* Map<ApiItem, Refs>: [keys: insertion order, refs: key -> Refs]
  page,            \* what the page builder computed last: [op, ...]
  fsCalls          \* the calls of fs.emptyDirSync and fs.writeFileSync, in order

vars == <<forest, pc, typeMap, log, visited, inheritanceMap, page, fsCalls>>

-----------------------------------------------------------------------------
(* Bounds of the model *)

\* number of declarations of a forest with namespaces and repeated names
NumScopedDecls == 3
\* number of declarations of a flat forest of classes, interfaces and enums
NumHierDecls == 2
\* number of declarations of a forest whose pages and anchors are linked
NumPathDecls == 3
\* number of declarations of a forest of classes and interfaces with members
NumMemberDecls == 4
\* number of declarations of a chain of types with documented methods
NumDocDecls == 6
\* number of declarations of a package of a run and number of packages
NumRunDecls == 3
\* number of declarations of the package of a chain of types
NumChainDecls == 6
\* number of declarations of a package with nested scopes
NumScopeDecls == 4
NumDiamondDecls == 5
NumKindDecls == 4
\* number of nodes of an emitted document with tables
NumDocNodes == 5
NumPackages == 2
\* number of cells of the longest row and of the header of an emitted table
MaxCells == 3
\* number of characters of a text that is escaped
MaxTextLen == 3
\* number of nodes of one list of a document
MaxListLen == 3

-----------------------------------------------------------------------------
(* Declarations *)

\* the entry point of the package; its members are the top-level declarations
Root == 0

TypeKinds == {"Class", "Enum", "Interface", "TypeAlias"}

EntryPoint ==
  [kind |-> "EntryPoint", displayName |-> "", parent |-> Root,
   extendsType |-> "", implementsTypes |-> <<>>, extendsTypes |-> <<>>,
   isStatic |-> FALSE, overloadIndex |-> 0, isEventProperty |-> FALSE,
   doc |-> "none"]

\* a namespace or a type with its extends/implements clauses
Declaration(kind, name, parent, ext, impl, exts) ==
  [kind |-> kind, displayName |-> name, parent |-> parent,
   extendsType |-> ext, implementsTypes |-> impl, extendsTypes |-> exts,
   isStatic |-> FALSE, overloadIndex |-> 0, isEventProperty |-> FALSE,
   doc |-> "none"]

\* a function, variable, method or property
MemberDeclaration(kind, name, parent, static, overload, event) ==
  [kind |-> kind, displayName |-> name, parent |-> parent,
   extendsType |-> "", implementsTypes |-> <<>>, extendsTypes |-> <<>>,
   isStatic |-> static, overloadIndex |-> overload, isEventProperty |-> event,
   doc |-> "none"]

\* a method or method signature with its doc comment: "none" when it has no
\* tsdocComment, "empty" when the summary section of its comment has no
\* nodes, "summary" when it has a summary
DocumentedMember(kind, name, parent, doc) ==
  [MemberDeclaration(kind, name, parent, FALSE, 0, FALSE) EXCEPT !.doc = doc]

\* ApiItem.members: the declarations contained in node, in declaration order
RECURSIVE MembersFrom(_, _, _)
MembersFrom(f, node, i) ==
  IF i \notin DOMAIN f THEN <<>>
  ELSE IF i # Root /\ f[i].parent = node
       THEN <<i>> \o MembersFrom(f, node, i + 1)
       ELSE MembersFrom(f, node, i + 1)

Members(f, node) == MembersFrom(f, node, 1)

\* the number of declarations of the package
NumDeclarations(f) == Cardinality(DOMAIN f) - 1

\* ApiItem.getHierarchy(): the containment chain, outermost (entry point) first
RECURSIVE GetHierarchy(_, _)
GetHierarchy(f, node) ==
  IF node = Root THEN <<Root>>
  ELSE Append(GetHierarchy(f, f[node].parent), node)

\* ApiItem.getScopedNameWithinPackage(): the display names of the chain below
\* the entry point, joined with "."
RECURSIVE GetScopedNameWithinPackage(_, _)
GetScopedNameWithinPackage(f, node) ==
  IF node = Root THEN ""
  ELSE LET outer == GetScopedNameWithinPackage(f, f[node].parent)
       IN IF outer = "" THEN f[node].displayName
          ELSE outer \o "." \o f[node].displayName

-----------------------------------------------------------------------------
(* References held by the inheritance graph: ApiItem | string | undefined *)

Item(i) == [tag |-> "item", id |-> i, text |-> ""]
Label(s) == [tag |-> "label", id |-> 0, text |-> s]
Undefined == [tag |-> "undefined", id |-> 0, text |-> ""]

\* JavaScript truthiness of an ApiItem | string | undefined value
Truthy(r) == r.tag = "item" \/ (r.tag = "label" /\ r.text # "")

\* r instanceof ApiItem
IsApiItem(r) == r.tag = "item"

-----------------------------------------------------------------------------
(* Type references *)

\* _getType: what the TypeScript parser makes of `const a:${type}`. A plain or
\* generic reference is a TypeReference node whose typeName is the leading
\* (qualified) identifier; `typeof A` is a TypeQuery node.
GetType(type) ==
  IF type = "typeof A" THEN [kind |-> "TypeQuery", typeName |-> ""]
  ELSE IF type = "X<T>" THEN [kind |-> "TypeReference", typeName |-> "X"]
  ELSE [kind |-> "TypeReference", typeName |-> type]

\* /^[\w_]/.test(type): the names of the model that do not start with a word
\* character
StartsWithWordChar(type) == type \notin {"", "$T"}

Reverse(s) == [i \in 1..Len(s) |-> s[Len(s) + 1 - i]]

\* the first of the candidate names that is a key of the type table
RECURSIVE FirstCandidate(_, _)
FirstCandidate(tm, candidates) ==
  IF candidates = <<>> THEN Undefined
  ELSE IF Head(candidates) \in DOMAIN tm THEN Item(tm[Head(candidates)])
       ELSE FirstCandidate(tm, Tail(candidates))

\* _resolveType
ResolveType(tm, f, originItem, type) ==
  IF ~StartsWithWordChar(type) THEN Undefined
  ELSE LET hierarchy == GetHierarchy(f, originItem)
           candidates ==
             Reverse([i \in 1..Len(hierarchy) |->
               LET itemName == GetScopedNameWithinPackage(f, hierarchy[i])
               IN IF itemName # "" THEN itemName \o "." \o type ELSE type])
       IN FirstCandidate(tm, candidates)

\* a base-type extraction that keeps the raw text of a clause it cannot parse
ExtractBaseTypeKeepText(tm, f, originItem, type) ==
  LET typeNode == GetType(type)
  IN IF typeNode.kind = "TypeReference"
     THEN LET typeText == typeNode.typeName
              resolved == ResolveType(tm, f, originItem, typeText)
          IN IF Truthy(resolved) THEN resolved ELSE Label(typeText)
     ELSE Label(type)

\* _extractBaseType
ExtractBaseType(tm, f, originItem, type) ==
  LET typeNode == GetType(type)
  IN IF typeNode.kind = "TypeReference"
     THEN LET typeText == typeNode.typeName
              resolved == ResolveType(tm, f, originItem, typeText)
          IN IF Truthy(resolved) THEN resolved ELSE Label(typeText)
     ELSE Undefined

-----------------------------------------------------------------------------
(* Hierarchy Resolver *)

EmptyMap == [keys |-> <<>>, refs |-> <<>>]

MapHas(map, k) == k \in DOMAIN map.refs

\* Map.set: a new key goes to the end of the iteration order
MapSet(map, k, v) ==
  [keys |-> IF MapHas(map, k) THEN map.keys ELSE Append(map.keys, k),
   refs |-> [x \in DOMAIN map.refs \cup {k} |-> IF x = k THEN v ELSE map.refs[x]]]

\* a table that keeps the first declaration written under a name
TypeMapSetFirstWins(tm, name, child) ==
  [x \in DOMAIN tm \cup {name} |-> IF x \in DOMAIN tm THEN tm[x] ELSE child]

TypeMapSet(tm, name, child) ==
  [x \in DOMAIN tm \cup {name} |-> IF x = name THEN child ELSE tm[x]]

\* a traversal that descends into the members of a declaration first
RECURSIVE TypeMappingLoopDepthFirst(_, _, _, _, _)
TypeMappingLoopDepthFirst(f, children, map, out, seen) ==
  IF children = <<>> THEN [map |-> map, log |-> out, visited |-> seen]
  ELSE LET child == Head(children)
           name == GetScopedNameWithinPackage(f, child)
           isType == f[child].kind \in TypeKinds
       IN TypeMappingLoopDepthFirst(f,
            Members(f, child) \o Tail(children),
            IF isType THEN [x \in DOMAIN map \cup {name} |->
                              IF x = name THEN child ELSE map[x]] ELSE map,
            IF isType /\ name \in DOMAIN map
              THEN Append(out, "Duplicate type for " \o name) ELSE out,
            Append(seen, child))

\* the loop of _generateTypeMapping over the queue `children`
RECURSIVE TypeMappingLoop(_, _, _, _, _)
TypeMappingLoop(f, children, map, out, seen) ==
  IF children = <<>> THEN [map |-> map, log |-> out, visited |-> seen]
  ELSE LET child == Head(children)
           name == GetScopedNameWithinPackage(f, child)
           isType == f[child].kind \in TypeKinds
       IN TypeMappingLoop(f,
            Tail(children) \o Members(f, child),
            IF isType THEN TypeMapSet(map, name, child) ELSE map,
            IF isType /\ name \in DOMAIN map
              THEN Append(out, "Duplicate type for " \o name) ELSE out,
            Append(seen, child))

\* _generateTypeMapping(apiPackage); apiPackage.members is the entry point
GenerateTypeMappingResult(f) == TypeMappingLoop(f, <<Root>>, <<>>, <<>>, <<>>)

NewRefs ==
  [parentClass |-> Undefined, childClasses |-> <<>>,
   parentInterfaces |-> <<>>, childInterfaces |-> <<>>]

\* the base types of a list of clauses, the undefined and empty ones dropped
RECURSIVE ResolvedInterfaces(_, _, _, _)
ResolvedInterfaces(tm, f, child, texts) ==
  IF texts = <<>> THEN <<>>
  ELSE LET resolvedBaseInterface == ExtractBaseType(tm, f, child, Head(texts))
           rest == ResolvedInterfaces(tm, f, child, Tail(texts))
       IN IF Truthy(resolvedBaseInterface)
          THEN <<resolvedBaseInterface>> \o rest ELSE rest

\* a forward-edge loop that gives every declaration of the type table a record
RECURSIVE ForwardLoopAllTypes(_, _, _, _)
ForwardLoopAllTypes(tm, f, children, map) ==
  IF children = <<>> THEN map
  ELSE LET child == Head(children)
           rest == Tail(children) \o Members(f, child)
       IN CASE f[child].kind = "Class" ->
                 ForwardLoopAllTypes(tm, f, rest, MapSet(map, child,
                   [NewRefs EXCEPT
                     !.parentClass =
                        IF f[child].extendsType # ""
                        THEN ExtractBaseType(tm, f, child, f[child].extendsType)
                        ELSE Undefined,
                     !.parentInterfaces =
                        ResolvedInterfaces(tm, f, child, f[child].implementsTypes)]))
            [] f[child].kind = "Interface" ->
                 ForwardLoopAllTypes(tm, f, rest, MapSet(map, child,
                   [NewRefs EXCEPT
                     !.parentInterfaces =
                        ResolvedInterfaces(tm, f, child, f[child].extendsTypes)]))
            [] f[child].kind \in {"Enum", "TypeAlias"} ->
                 ForwardLoopAllTypes(tm, f, rest, MapSet(map, child, NewRefs))
            [] OTHER -> ForwardLoopAllTypes(tm, f, rest, map)

\* the forward-edge loop of _generateClassHierarchy
RECURSIVE ForwardLoop(_, _, _, _)
ForwardLoop(tm, f, children, map) ==
  IF children = <<>> THEN map
  ELSE LET child == Head(children)
           rest == Tail(children) \o Members(f, child)
       IN CASE f[child].kind = "Class" ->
                 ForwardLoop(tm, f, rest, MapSet(map, child,
                   [NewRefs EXCEPT
                     !.parentClass =
                        IF f[child].extendsType # ""
                        THEN ExtractBaseType(tm, f, child, f[child].extendsType)
                        ELSE Undefined,
                     !.parentInterfaces =
                        ResolvedInterfaces(tm, f, child, f[child].implementsTypes)]))
            [] f[child].kind = "Interface" ->
                 ForwardLoop(tm, f, rest, MapSet(map, child,
                   [NewRefs EXCEPT
                     !.parentInterfaces =
                        ResolvedInterfaces(tm, f, child, f[child].extendsTypes)]))
            [] OTHER -> ForwardLoop(tm, f, rest, map)

MapGetOrNew(map, k) == IF MapHas(map, k) THEN map.refs[k] ELSE NewRefs

\* a reverse pass that fills a fresh record without storing it in the Map
AddChildOfParentClassNoSet(map, parentClass, child) ==
  IF MapHas(map, parentClass)
  THEN MapSet(map, parentClass,
         [map.refs[parentClass] EXCEPT !.childInterfaces = Append(@, Item(child))])
  ELSE map

\* the reverse pointer of a parentClass edge
AddChildOfParentClass(map, parentClass, child) ==
  LET refs == MapGetOrNew(map, parentClass)
  IN MapSet(map, parentClass,
       [refs EXCEPT !.childInterfaces = Append(@, Item(child))])

\* the reverse pointers of the parentInterfaces edges of one child
RECURSIVE AddChildOfParentInterfaces(_, _, _, _)
AddChildOfParentInterfaces(f, map, parentInterfaces, child) ==
  IF parentInterfaces = <<>> THEN map
  ELSE LET parentInterface == Head(parentInterfaces)
       IN IF ~IsApiItem(parentInterface)
          THEN AddChildOfParentInterfaces(f, map, Tail(parentInterfaces), child)
          ELSE LET refs == MapGetOrNew(map, parentInterface.id)
                   refs2 == IF f[child].kind = "Class"
                            THEN [refs EXCEPT !.childClasses = Append(@, Item(child))]
                            ELSE [refs EXCEPT !.childInterfaces = Append(@, Item(child))]
               IN AddChildOfParentInterfaces(f,
                    MapSet(map, parentInterface.id, refs2),
                    Tail(parentInterfaces), child)

\* the reverse-edge loop: it iterates the Map while entries are appended to it
RECURSIVE ReverseLoop(_, _, _)
ReverseLoop(f, map, i) ==
  IF i > Len(map.keys) THEN map
  ELSE LET child == map.keys[i]
           parentClass == map.refs[child].parentClass
           parentInterfaces == map.refs[child].parentInterfaces
           map1 == IF IsApiItem(parentClass)
                   THEN AddChildOfParentClass(map, parentClass.id, child)
                   ELSE map
       IN ReverseLoop(f,
            AddChildOfParentInterfaces(f, map1, parentInterfaces, child), i + 1)

\* the Map after the first loop of _generateClassHierarchy
ForwardEdges(tm, f) == ForwardLoop(tm, f, <<Root>>, EmptyMap)

\* _generateClassHierarchy(context, apiPackage)
GenerateClassHierarchyResult(tm, f) == ReverseLoop(f, ForwardEdges(tm, f), 1)

-----------------------------------------------------------------------------
(* Page Router *)

\* String.toLowerCase on the display names of the model
ToLowerCase(name) ==
  CASE name = "Foo" -> "foo"
    [] name = "Bar" -> "bar"
    [] name = "Result" -> "result"
    [] name = "NS" -> "ns"
    [] name = "A" -> "a"
    [] name = "B" -> "b"
    [] name = "C" -> "c"
    [] name = "D" -> "d"
    [] name = "E" -> "e"
    [] name = "Dog" -> "dog"
    [] name = "Puppy" -> "puppy"
    [] name = "Pug" -> "pug"
    [] OTHER -> name

\* the decimal digits of an overload index
IndexToString(n) ==
  CASE n = 0 -> "0" [] n = 1 -> "1" [] n = 2 -> "2" [] n = 3 -> "3"

\* ApiParameterListMixin.isBaseClassOf
HasParameterList(kind) == kind \in {"Function", "Method", "MethodSignature"}

\* ApiStaticMixin.isBaseClassOf
HasStatic(kind) == kind \in {"Method", "Property"}

\* the folder of a hierarchy item; "" where the switch sets none
FolderOf(kind) ==
  CASE kind = "Class" -> "classes"
    [] kind = "Enum" -> "enums"
    [] kind = "Interface" -> "interfaces"
    [] kind = "Namespace" -> "namespaces"
    [] kind = "TypeAlias" -> "types"
    [] kind \in {"Variable", "Function"} -> "variables"
    [] OTHER -> ""

\* an anchor that names the overload before the static suffix
GetAnchorForApiItemStaticLast(d) ==
  LET anchor ==
        CASE d.kind \in {"MethodSignature", "Method"} -> d.displayName \o "-method"
          [] d.kind \in {"PropertySignature", "Property"} ->
               IF d.isEventProperty THEN d.displayName \o "-event"
               ELSE d.displayName \o "-property"
          [] OTHER -> ""
      withIndex ==
        IF anchor # "" /\ HasParameterList(d.kind) /\ d.overloadIndex > 0
        THEN anchor \o "-" \o IndexToString(d.overloadIndex) ELSE anchor
  IN IF withIndex # "" /\ HasStatic(d.kind) /\ d.isStatic
     THEN withIndex \o "-static" ELSE withIndex

\* _getAnchorForApiItem; "" stands for undefined
GetAnchorForApiItem(d) ==
  LET anchor ==
        CASE d.kind \in {"MethodSignature", "Method"} -> d.displayName \o "-method"
          [] d.kind \in {"PropertySignature", "Property"} ->
               IF d.isEventProperty THEN d.displayName \o "-event"
               ELSE d.displayName \o "-property"
          [] OTHER -> ""
      withStatic ==
        IF anchor # "" /\ HasStatic(d.kind) /\ d.isStatic
        THEN anchor \o "-static" ELSE anchor
  IN IF withStatic # "" /\ HasParameterList(d.kind) /\ d.overloadIndex > 0
     THEN withStatic \o "-" \o IndexToString(d.overloadIndex) ELSE withStatic

\* the loop of _getFilenameForApiItem over the hierarchy: the path segments of
\* baseName (lower-cased) and the hashName
RECURSIVE FilenameLoop(_, _, _, _)
FilenameLoop(f, hierarchy, baseName, hashName) ==
  IF hierarchy = <<>> THEN [baseName |-> baseName, hashName |-> hashName]
  ELSE LET hierarchyItem == f[Head(hierarchy)]
           qualifiedName ==
             IF HasParameterList(hierarchyItem.kind) /\ hierarchyItem.overloadIndex > 0
             THEN ToLowerCase(hierarchyItem.displayName) \o "_"
                    \o IndexToString(hierarchyItem.overloadIndex)
             ELSE ToLowerCase(hierarchyItem.displayName)
           folder == FolderOf(hierarchyItem.kind)
       IN CASE hierarchyItem.kind \in {"Model", "EntryPoint", "Package"} ->
                 FilenameLoop(f, Tail(hierarchy), baseName, hashName)
            [] hierarchyItem.kind \in
                 {"Method", "MethodSignature", "Property", "PropertySignature"} ->
                 FilenameLoop(f, Tail(hierarchy), baseName,
                              GetAnchorForApiItem(hierarchyItem))
            [] OTHER ->
                 FilenameLoop(f, Tail(hierarchy),
                   baseName \o (IF folder # "" THEN <<folder>> ELSE <<>>)
                            \o <<qualifiedName>>,
                   hashName)

\* _getFilenameForApiItem: the path as its "/"-separated segments, the last one
\* carrying ".md" and the "#anchor"
GetFilenameForApiItem(f, apiItem) ==
  LET r == FilenameLoop(f, GetHierarchy(f, apiItem), <<>>, "")
      segments == IF r.baseName = <<>> THEN <<"index">> ELSE r.baseName
      n == Len(segments)
      name == [segments EXCEPT ![n] = @ \o ".md"]
  IN IF r.hashName # "" THEN [name EXCEPT ![n] = @ \o "#" \o r.hashName]
     ELSE name

\* a dirname that keeps the file name of the page
DirnameKeepsFile(filename) == filename

\* path.dirname of a relative path; <<>> stands for "."
Dirname(filename) == SubSeq(filename, 1, Len(filename) - 1)

RECURSIVE CommonPrefixLength(_, _)
CommonPrefixLength(a, b) ==
  IF a = <<>> \/ b = <<>> \/ Head(a) # Head(b) THEN 0
  ELSE 1 + CommonPrefixLength(Tail(a), Tail(b))

\* path.relative(from, to) of two relative paths
Relative(from, to) ==
  LET k == CommonPrefixLength(from, to)
  IN [i \in 1..(Len(from) - k) |-> ".."] \o SubSeq(to, k + 1, Len(to))

\* _getLinkFilenameForApiItem
GetLinkFilenameForApiItem(f, filename, apiItem) ==
  LET destination == Relative(Dirname(filename), GetFilenameForApiItem(f, apiItem))
  IN IF destination = <<>> \/ Head(destination) \notin {".", ".."}
     THEN <<".">> \o destination
     ELSE destination

-----------------------------------------------------------------------------
(* Member Resolver *)

\* the collation order of the member names of the model; "" sorts first
NameRank(name) ==
  CASE name = "" -> 0
    [] name = "bark" -> 1
    [] name = "One" -> 2
    [] name = "run" -> 3
    [] name = "size" -> 4
    [] name = "speak" -> 5

\* a.localeCompare(b)
LocaleCompare(a, b) ==
  IF NameRank(a) < NameRank(b) THEN -1
  ELSE IF NameRank(a) > NameRank(b) THEN 1 ELSE 0

\* the place of one more member in a list sorted by display name (Array.sort
\* is stable for the short lists of the model)
RECURSIVE InsertByName(_, _, _)
InsertByName(f, sorted, x) ==
  IF sorted = <<>> THEN <<x>>
  ELSE IF LocaleCompare(f[Head(sorted)].displayName, f[x].displayName) > 0
       THEN <<x>> \o sorted
       ELSE <<Head(sorted)>> \o InsertByName(f, Tail(sorted), x)

\* the members in declaration order, unsorted
SortByNameKeepsOrder(f, items) == items

\* Array.from(apiItem.members).sort(by displayName)
RECURSIVE SortByName(_, _)
SortByName(f, items) ==
  IF items = <<>> THEN <<>>
  ELSE InsertByName(f, SortByName(f, SubSeq(items, 1, Len(items) - 1)),
                    items[Len(items)])

\* the keys of the inherited members in collation order
RECURSIVE SortedNames(_)
SortedNames(names) ==
  IF names = {} THEN <<>>
  ELSE LET first == CHOOSE n \in names : \A m \in names : NameRank(n) <= NameRank(m)
       IN <<first>> \o SortedNames(names \ {first})

\* the members of one ancestor recorded at a level of the walk
RECURSIVE RecordMembers(_, _, _, _)
RecordMembers(f, members, level, toAdd) ==
  IF toAdd = <<>> THEN members
  ELSE LET member == Head(toAdd)
           name == f[member].displayName
           added ==
             IF name \notin DOMAIN members
             THEN <<[level |-> level, alternates |-> <<member>>]>>
             ELSE LET hierarchy == members[name]
                      lastLevel == hierarchy[Len(hierarchy)]
                  IN IF lastLevel.level # level
                     THEN Append(hierarchy, [level |-> level, alternates |-> <<member>>])
                     ELSE [hierarchy EXCEPT ![Len(hierarchy)].alternates = Append(@, member)]
       IN RecordMembers(f,
            [n \in DOMAIN members \cup {name} |-> IF n = name THEN added ELSE members[n]],
            level, Tail(toAdd))

\* the parents of a graph entry: parentClass, if any, then parentInterfaces
ParentsInOrder(map, k) ==
  IF MapHas(map, k)
  THEN (IF Truthy(map.refs[k].parentClass) THEN <<map.refs[k].parentClass>> ELSE <<>>)
       \o map.refs[k].parentInterfaces
  ELSE <<>>

\* the while loop of _getInheritedMembers. The loop has no exit on a graph
\* with a cycle: a walk that is still going at a level above the number of
\* declarations has met a declaration twice on one path and never ends.
RECURSIVE InheritedLoop(_, _, _, _, _, _)
InheritedLoop(f, map, members, level, currentLevel, nextLevel) ==
  IF currentLevel = <<>> THEN [diverges |-> FALSE, members |-> members]
  ELSE IF level > NumDeclarations(f) THEN [diverges |-> TRUE, members |-> members]
  ELSE LET current == Head(currentLevel)
           rest == Tail(currentLevel)
           members2 == IF IsApiItem(current)
                       THEN RecordMembers(f, members, level, Members(f, current.id))
                       ELSE members
           next2 == IF IsApiItem(current)
                    THEN nextLevel \o ParentsInOrder(map, current.id)
                    ELSE nextLevel
       IN IF rest = <<>>
          THEN InheritedLoop(f, map, members2, level + 1, next2, <<>>)
          ELSE InheritedLoop(f, map, members2, level, rest, next2)

\* the alternates of the nearest level of one name only
AlternatesOfNearestLevel(hierarchy) ==
  IF hierarchy = <<>> THEN <<>> ELSE Head(hierarchy).alternates

\* the alternates of all levels of one name, every member kept at its first
\* occurrence only
AlternatesWithoutRepeats(hierarchy) ==
  LET chain[i \in 0..Len(hierarchy)] ==
        IF i = 0 THEN <<>> ELSE chain[i - 1] \o hierarchy[i].alternates
      all == chain[Len(hierarchy)]
      kept[i \in 0..Len(all)] ==
        IF i = 0 THEN <<>>
        ELSE IF \E j \in 1..(i - 1) : all[j] = all[i] THEN kept[i - 1]
        ELSE Append(kept[i - 1], all[i])
  IN kept[Len(all)]

\* the concatenation of the alternates of all levels of one name
RECURSIVE Alternates(_)
Alternates(hierarchy) ==
  IF hierarchy = <<>> THEN <<>>
  ELSE Head(hierarchy).alternates \o Alternates(Tail(hierarchy))

\* _getInheritedMembers: name -> chain, nearest level first
GetInheritedMembers(f, map, apiItem) ==
  LET walk == InheritedLoop(f, map, <<>>, 1, ParentsInOrder(map, apiItem), <<>>)
  IN [diverges |-> walk.diverges,
      members |-> [n \in DOMAIN walk.members |-> Alternates(walk.members[n])]]

NoMember == 0

\* the merge loop of _getResolvedMembers
RECURSIVE MergeLoop(_, _, _, _)
MergeLoop(f, ownMembers, inheritedMembers, resolvedMembers) ==
  IF ownMembers = <<>> /\ inheritedMembers = <<>> THEN resolvedMembers
  ELSE LET hasOwn == ownMembers # <<>>
           hasInherited == inheritedMembers # <<>>
           comparison ==
             LocaleCompare(
               IF hasOwn THEN f[Head(ownMembers)].displayName ELSE "",
               IF hasInherited THEN f[Head(inheritedMembers).first].displayName ELSE "")
       IN IF ~hasOwn \/ (hasInherited /\ comparison > 0)
          THEN MergeLoop(f, ownMembers, Tail(inheritedMembers),
                 Append(resolvedMembers,
                   [ownMember |-> NoMember, parents |-> Head(inheritedMembers).chain]))
          ELSE IF ~hasInherited \/ (hasOwn /\ comparison < 0)
          THEN MergeLoop(f, Tail(ownMembers), inheritedMembers,
                 Append(resolvedMembers,
                   [ownMember |-> Head(ownMembers), parents |-> <<>>]))
          ELSE MergeLoop(f, Tail(ownMembers), Tail(inheritedMembers),
                 Append(resolvedMembers,
                   [ownMember |-> Head(ownMembers),
                    parents |-> Head(inheritedMembers).chain]))

\* the graph after a walk that shifts the parents of the item out of the
\* array of its record
GraphAfterSharedWalk(map, apiItem) ==
  IF MapHas(map, apiItem)
  THEN [map EXCEPT !.refs[apiItem].parentInterfaces = <<>>]
  ELSE map

\* the graph after _getInheritedMembers: currentLevel, the array that the
\* walk empties with shift(), is a new array spread from refs.parentClass and
\* refs.parentInterfaces, and nextLevel is an array of the walk too, filled
\* with push(...refs.parentInterfaces); no array of a record is written
GraphAfterInheritedWalk(map, apiItem) == map

\* the forest after _getResolvedMembers: sort() and shift() act on
\* Array.from(apiItem.members), a copy of the member list of the item
ForestAfterResolve(f, apiItem) == f

\* _getResolvedMembers
GetResolvedMembers(f, map, apiItem) ==
  LET rawInheritedMembers == GetInheritedMembers(f, map, apiItem)
      ownMembers == SortByName(f, Members(f, apiItem))
      names == SortedNames(DOMAIN rawInheritedMembers.members)
      inheritedMembers ==
        [i \in DOMAIN names |->
           [first |-> rawInheritedMembers.members[names[i]][1],
            chain |-> rawInheritedMembers.members[names[i]]]]
  IN [diverges |-> rawInheritedMembers.diverges,
      resolvedMembers |->
        IF rawInheritedMembers.diverges THEN <<>>
        ELSE MergeLoop(f, ownMembers, inheritedMembers, <<>>)]

NoNote == [present |-> FALSE, text |-> "", linkText |-> "", urlDestination |-> <<>>]

\* a note that is worded by the kinds alone, whether or not the item is the
\* head of the chain
CreateInheritanceNoteByKinds(f, filename, apiItem, inheritanceChain) ==
  IF inheritanceChain = <<>> THEN NoNote
  ELSE LET parent == inheritanceChain[1]
           text ==
             IF /\ (f[apiItem].kind = "Method" \/ f[parent].kind = "Property")
                /\ (f[apiItem].kind = "MethodSignature"
                      \/ f[parent].kind = "PropertySignature")
             THEN "Implements "
             ELSE "Overrides "
       IN [present |-> TRUE, text |-> text,
           linkText |-> GetScopedNameWithinPackage(f, parent),
           urlDestination |-> GetLinkFilenameForApiItem(f, filename, parent)]

\* _createInheritanceNote
CreateInheritanceNote(f, filename, apiItem, inheritanceChain) ==
  IF inheritanceChain = <<>> THEN NoNote
  ELSE LET parent == inheritanceChain[1]
           text ==
             IF apiItem = parent THEN "Inherited from "
             ELSE IF /\ (f[apiItem].kind = "Method" \/ f[parent].kind = "Property")
                     /\ (f[apiItem].kind = "MethodSignature"
                           \/ f[parent].kind = "PropertySignature")
                  THEN "Implements "
                  ELSE "Overrides "
       IN [present |-> TRUE, text |-> text,
           linkText |-> GetScopedNameWithinPackage(f, parent),
           urlDestination |-> GetLinkFilenameForApiItem(f, filename, parent)]

\* the summary section of the doc comment of an item, as the text it holds
SummaryOf(f, item) ==
  IF f[item].doc = "summary"
  THEN "Summary of " \o GetScopedNameWithinPackage(f, item) ELSE ""

NoSummary == [item |-> NoMember, text |-> ""]

\* the summary that _createDescriptionCell puts in the cell
RECURSIVE FirstCommentSummary(_, _)
FirstCommentSummary(f, items) ==
  IF items = <<>> THEN NoSummary
  ELSE IF f[Head(items)].doc # "none"
       THEN [item |-> Head(items), text |-> SummaryOf(f, Head(items))]
       ELSE FirstCommentSummary(f, Tail(items))

\* the summary that _writeApiItemBody appends
RECURSIVE FirstNonEmptySummary(_, _)
FirstNonEmptySummary(f, items) ==
  IF items = <<>> THEN NoSummary
  ELSE IF f[Head(items)].doc # "none" /\ SummaryOf(f, Head(items)) # ""
       THEN [item |-> Head(items), text |-> SummaryOf(f, Head(items))]
       ELSE FirstNonEmptySummary(f, Tail(items))

\* the table of the page that gets the row of a member
TableOf(f, apiMember) ==
  (IF HasStatic(f[apiMember].kind) /\ f[apiMember].isStatic THEN "Static " ELSE "")
  \o (IF f[apiMember].kind \in {"Method", "MethodSignature"} THEN "Methods"
      ELSE IF f[apiMember].isEventProperty THEN "Events" ELSE "Properties")

\* the row of one resolved member in the tables of _writeClassTables and
\* _writeInterfaceTables: the member shown, its table, the link of its title
\* cell, the summary and the inheritance note of its description cell, and
\* whether a details section with the member's body is written, with the
\* summary of that body
MemberRow(f, filename, resolvedMember) ==
  LET apiMember == IF resolvedMember.ownMember # NoMember
                   THEN resolvedMember.ownMember ELSE resolvedMember.parents[1]
      details == apiMember = resolvedMember.ownMember
  IN [apiMember |-> apiMember,
      parents |-> resolvedMember.parents,
      table |-> TableOf(f, apiMember),
      titleLink |-> GetLinkFilenameForApiItem(f, filename, apiMember),
      description |-> FirstCommentSummary(f, <<apiMember>> \o resolvedMember.parents),
      note |-> CreateInheritanceNote(f, filename, apiMember, resolvedMember.parents),
      details |-> details,
      detailSummary |->
        IF details
        THEN FirstNonEmptySummary(f, <<apiMember>> \o resolvedMember.parents)
        ELSE NoSummary]

\* the member kinds of tables with a case for constructors too
TableKindsWithConstructor ==
  {"Method", "MethodSignature", "Property", "PropertySignature", "Constructor"}

\* the member kinds the tables have a case for
TableKinds == {"Method", "MethodSignature", "Property", "PropertySignature"}

\* _writeClassTables / _writeInterfaceTables, as far as the resolved members go
WriteMemberTables(f, map, filename, apiItem) ==
  LET resolved == GetResolvedMembers(f, map, apiItem)
      shown == SelectSeq(resolved.resolvedMembers,
                 LAMBDA m : f[IF m.ownMember # NoMember THEN m.ownMember
                              ELSE m.parents[1]].kind \in TableKinds)
  IN [diverges |-> resolved.diverges,
      resolvedMembers |-> resolved.resolvedMembers,
      rows |-> [i \in DOMAIN shown |-> MemberRow(f, filename, shown[i])]]

-----------------------------------------------------------------------------
(* Hierarchy diagrams *)

\* a TreeNode; overflow marks a tree whose construction does not return
TreeNode(item, children, overflow) ==
  [item |-> item, children |-> children, overflow |-> overflow]

AnyOverflow(children) == \E i \in DOMAIN children : children[i].overflow

\* _generateChildTree. The recursion has no guard against a cycle: a call
\* nested deeper than the number of declarations has met a declaration twice
\* on one path, and the recursion it starts exhausts the stack.
RECURSIVE GenerateChildTree(_, _, _, _)
GenerateChildTree(map, apiItem, walkKey, fuel) ==
  IF ~IsApiItem(apiItem) THEN TreeNode(apiItem, <<>>, FALSE)
  ELSE IF fuel = 0 THEN TreeNode(apiItem, <<>>, TRUE)
  ELSE LET walked == IF MapHas(map, apiItem.id) THEN map.refs[apiItem.id][walkKey]
                     ELSE <<>>
           children == [i \in DOMAIN walked |->
                          GenerateChildTree(map, walked[i], walkKey, fuel - 1)]
       IN TreeNode(apiItem, children, AnyOverflow(children))

\* _generateParentTree
RECURSIVE GenerateParentTree(_, _, _, _)
GenerateParentTree(map, apiItem, childNode, fuel) ==
  IF ~IsApiItem(apiItem) THEN TreeNode(apiItem, <<childNode>>, childNode.overflow)
  ELSE IF fuel = 0 THEN TreeNode(apiItem, <<>>, TRUE)
  ELSE LET hasEntry == MapHas(map, apiItem.id)
           childClasses == IF hasEntry THEN map.refs[apiItem.id].childClasses ELSE <<>>
           children == [i \in DOMAIN childClasses |->
                          IF childClasses[i] = childNode.item THEN childNode
                          ELSE TreeNode(childClasses[i], <<>>, FALSE)]
           node == TreeNode(apiItem, children, AnyOverflow(children))
       IN IF hasEntry /\ Truthy(map.refs[apiItem.id].parentClass)
          THEN GenerateParentTree(map, map.refs[apiItem.id].parentClass,
                                  node, fuel - 1)
          ELSE node

\* _createTypeTree: the list items in document order, each with the depth of
\* its nested list; a node is plain text for a string, bold for the current
\* item and a link to the page of any other item
RECURSIVE CreateTypeTree(_, _, _, _, _)
CreateTypeTree(f, filename, currentApiItem, tree, depth) ==
  IF tree = <<>> THEN <<>>
  ELSE LET node == Head(tree)
           text ==
             IF ~IsApiItem(node.item)
             THEN [depth |-> depth, style |-> "plain", item |-> node.item,
                   text |-> node.item.text, urlDestination |-> <<>>]
             ELSE IF node.item = currentApiItem
             THEN [depth |-> depth, style |-> "bold", item |-> node.item,
                   text |-> GetScopedNameWithinPackage(f, node.item.id),
                   urlDestination |-> <<>>]
             ELSE [depth |-> depth, style |-> "link", item |-> node.item,
                   text |-> GetScopedNameWithinPackage(f, node.item.id),
                   urlDestination |->
                     GetLinkFilenameForApiItem(f, filename, node.item.id)]
       IN <<text>>
          \o CreateTypeTree(f, filename, currentApiItem, node.children, depth + 1)
          \o CreateTypeTree(f, filename, currentApiItem, Tail(tree), depth)

NoSection == [diverges |-> FALSE, heading |-> "", list |-> <<>>]

\* a diagram writer that renders a tree without children too
TreeSectionOfAnyTree(f, filename, apiItem, tree, title) ==
  IF tree.overflow THEN [diverges |-> TRUE, heading |-> "", list |-> <<>>]
  ELSE [diverges |-> FALSE, heading |-> title,
        list |-> CreateTypeTree(f, filename, Item(apiItem), <<tree>>, 0)]

\* what a diagram writer appends for the tree it has built
TreeSection(f, filename, apiItem, tree, title) ==
  IF tree.overflow THEN [diverges |-> TRUE, heading |-> "", list |-> <<>>]
  ELSE IF Len(tree.children) = 0 THEN NoSection
  ELSE [diverges |-> FALSE, heading |-> title,
        list |-> CreateTypeTree(f, filename, Item(apiItem), <<tree>>, 0)]

\* _writeClassHierarchy
WriteClassHierarchySection(f, map, filename, apiItem) ==
  IF ~MapHas(map, apiItem) THEN NoSection
  ELSE LET refs == map.refs[apiItem]
           fuel == NumDeclarations(f)
           childTree == GenerateChildTree(map, Item(apiItem), "childClasses", fuel)
           tree == IF Truthy(refs.parentClass)
                   THEN IF childTree.overflow THEN childTree
                        ELSE GenerateParentTree(map, refs.parentClass, childTree, fuel)
                   ELSE childTree
       IN TreeSection(f, filename, apiItem, tree, "Class Hierarchy")

\* _writeInterfaceImplementations
WriteInterfaceImplementationsSection(f, map, filename, apiItem) ==
  IF ~MapHas(map, apiItem) THEN NoSection
  ELSE TreeSection(f, filename, apiItem,
         GenerateChildTree(map, Item(apiItem), "parentInterfaces", NumDeclarations(f)),
         "Implements Interfaces")

\* _writeInterfaceImplementors
WriteInterfaceImplementorsSection(f, map, filename, apiItem) ==
  IF ~MapHas(map, apiItem) THEN NoSection
  ELSE TreeSection(f, filename, apiItem,
         GenerateChildTree(map, Item(apiItem), "childInterfaces", NumDeclarations(f)),
         "Implemented By")

-----------------------------------------------------------------------------
(* The declaration forests the model starts from *)

ScopedNames == {"Result", "NS"}

\* a container holds at most one member of a given name and kind
FreshIn(f, d) ==
  \A j \in DOMAIN f \ {Root} :
    ~(/\ f[j].parent = d.parent /\ f[j].displayName = d.displayName
      /\ f[j].kind = d.kind /\ f[j].overloadIndex = d.overloadIndex)

\* the declarations that can follow the forest f: any type or namespace, at
\* the top level or inside an earlier namespace; a class may extend Result
ScopedOptions(f) ==
  LET containers == {Root} \cup {j \in DOMAIN f \ {Root} : f[j].kind = "Namespace"}
      all == {Declaration(k, n, p, "", <<>>, <<>>) :
                k \in {"Namespace", "Class", "Interface", "Enum", "TypeAlias"},
                n \in ScopedNames, p \in containers}
             \cup {Declaration("Class", n, p, "Result", <<>>, <<>>) :
                n \in ScopedNames, p \in containers}
  IN {d \in all : FreshIn(f, d)}

HierNames == <<"A", "B", "C", "D", "E">>

\* a top-level class, interface or enum named HierNames[i]; its clauses name
\* the declarations of the forest, an unknown generic type, a name that does
\* not start with a word character, or are not a type reference at all
HierOptions(i) ==
  LET names == {HierNames[j] : j \in 1..NumHierDecls}
  IN {Declaration("Class", HierNames[i], Root, e, m, <<>>) :
        e \in {""} \cup names \cup {"X<T>", "typeof A"},
        m \in {<<>>} \cup {<<t>> : t \in names \cup {"X<T>"}}}
     \cup {Declaration("Interface", HierNames[i], Root, "", <<>>, x) :
        x \in {<<>>} \cup {<<t>> : t \in names \cup {"$T", "typeof A"}}}
     \cup {Declaration("Enum", HierNames[i], Root, "", <<>>, <<>>)}

\* the declarations the loader can add to the forest f: a forest is either
\* scoped (namespaces, repeated names) or flat (an inheritance graph)
LoadOptions(f) ==
  LET n == NumDeclarations(f)
      used == {f[j].displayName : j \in DOMAIN f \ {Root}}
  IN (IF used \subseteq ScopedNames /\ n < NumScopedDecls
      THEN ScopedOptions(f) ELSE {})
     \cup
     (IF used \subseteq {HierNames[j] : j \in 1..NumHierDecls} /\ n < NumHierDecls
      THEN HierOptions(n + 1) ELSE {})

\* the kinds that _writePackageOrNamespaceTables writes a page for
PageKinds ==
  {"Class", "Enum", "Interface", "Namespace", "Function", "TypeAlias", "Variable"}

\* the declarations of a forest of pages: namespaces, classes, interfaces,
\* enums, type aliases, variables and (overloaded) functions, nested in
\* namespaces, and the methods and properties of the classes and interfaces
PathOptions(f) ==
  LET earlier == DOMAIN f \ {Root}
      containers == {Root} \cup {j \in earlier : f[j].kind = "Namespace"}
      classes == {j \in earlier : f[j].kind = "Class"}
      interfaces == {j \in earlier : f[j].kind = "Interface"}
      all ==
        {Declaration("Namespace", "NS", p, "", <<>>, <<>>) : p \in containers}
        \cup {Declaration("Class", "Foo", p, "", <<>>, <<>>) : p \in containers}
        \cup {Declaration("Interface", "Bar", p, "", <<>>, <<>>) : p \in containers}
        \cup {Declaration("Enum", "Foo", p, "", <<>>, <<>>) : p \in containers}
        \cup {Declaration("TypeAlias", "Result", p, "", <<>>, <<>>) : p \in containers}
        \cup {MemberDeclaration("Variable", "size", p, FALSE, 0, FALSE) : p \in containers}
        \cup {MemberDeclaration("Function", "Foo", p, FALSE, o, FALSE) :
                p \in containers, o \in {0, 1}}
        \cup {MemberDeclaration("Method", "run", p, st, o, FALSE) :
                p \in classes, st \in BOOLEAN, o \in {0, 1}}
        \cup {MemberDeclaration("Property", "size", p, FALSE, 0, e) :
                p \in classes, e \in BOOLEAN}
        \cup {MemberDeclaration("MethodSignature", "run", p, FALSE, 0, FALSE) :
                p \in interfaces}
        \cup {MemberDeclaration("PropertySignature", "size", p, FALSE, 0, FALSE) :
                p \in interfaces}
  IN IF NumDeclarations(f) < NumPathDecls THEN {d \in all : FreshIn(f, d)} ELSE {}

MemberNames == {"speak"}

\* the declarations of a forest of classes and interfaces with members: the
\* types are named in order and extend or implement earlier types, and each
\* is declared with its members: a class has methods (with overloads) and a
\* property, an interface has method signatures and a property signature
MemberOptions(f) ==
  LET earlier == DOMAIN f \ {Root}
      types == {j \in earlier : f[j].kind \in {"Class", "Interface"}}
      latest == {j \in types : \A k \in types : k <= j}
      classes == {j \in latest : f[j].kind = "Class"}
      interfaces == {j \in latest : f[j].kind = "Interface"}
      names == {f[j].displayName : j \in types}
      name == HierNames[Cardinality(names) + 1]
      overloads(p, n) == Cardinality({j \in earlier : f[j].parent = p
                                                       /\ f[j].displayName = n})
      all ==
        {Declaration("Class", name, Root, ext, <<>>, <<>>) : ext \in {""} \cup names}
        \cup {Declaration("Class", name, Root, "", <<t>>, <<>>) : t \in names}
        \cup {Declaration("Class", name, Root, f[j].displayName, <<HierNames[1]>>, <<>>) :
                 j \in {k \in latest : k > 1}}
        \cup {Declaration("Interface", name, Root, "", <<>>, x) :
                 x \in {<<>>} \cup {<<t>> : t \in names}}
        \cup {MemberDeclaration("Method", n, p, FALSE, overloads(p, n), FALSE) :
                 p \in classes, n \in MemberNames}
        \cup {MemberDeclaration("Property", "size", p, FALSE, 0, FALSE) :
                 p \in classes}
        \cup {MemberDeclaration("MethodSignature", n, p, FALSE, overloads(p, n), FALSE) :
                 p \in interfaces, n \in MemberNames}
        \cup {MemberDeclaration("PropertySignature", "size", p, FALSE, 0, FALSE) :
                 p \in interfaces}
  IN IF NumDeclarations(f) < NumMemberDecls THEN {d \in all : FreshIn(f, d)} ELSE {}

DocNames == <<"Dog", "Puppy", "Pug", "A", "B", "C", "D">>

\* the declarations of a chain of documented types, each declared with its
\* one member: the first type has no clause, every later class extends or
\* implements the type before it and every later interface extends it; the
\* member of a type is bark, a method or method signature with or without a
\* doc comment
DocOptions(f) ==
  LET earlier == DOMAIN f \ {Root}
      types == {j \in earlier : f[j].kind \in {"Class", "Interface"}}
      latest == {j \in types : \A k \in types : k <= j}
      complete == {j \in latest : Members(f, j) # <<>>}
      previous == {f[j].displayName : j \in complete}
      name == DocNames[Cardinality(types) + 1]
      all ==
        {Declaration(k, name, Root, "", <<>>, <<>>) :
           k \in IF types = {} THEN {"Class", "Interface"} ELSE {}}
        \cup {Declaration("Class", name, Root, t, <<>>, <<>>) : t \in previous}
        \cup {Declaration("Class", name, Root, "", <<t>>, <<>>) : t \in previous}
        \cup {Declaration("Interface", name, Root, "", <<>>, <<t>>) : t \in previous}
        \cup {DocumentedMember(IF f[p].kind = "Class" THEN "Method"
                               ELSE "MethodSignature", "bark", p, doc) :
                 p \in latest \ complete,
                 doc \in {"none", "empty", "summary"}}
  IN IF NumDeclarations(f) < NumDocDecls THEN all ELSE {}

\* the declarations of a chain of types with overloaded members: the first
\* type has no clause, every later class extends the type before it (or
\* extends it and implements the first type as well) and every later
\* interface extends it; a type declares no, one or two overloads of
\* speak before the next type is declared
ChainOptions(f) ==
  LET earlier == DOMAIN f \ {Root}
      types == {j \in earlier : f[j].kind \in {"Class", "Interface"}}
      latest == {j \in types : \A k \in types : k <= j}
      previous == {f[j].displayName : j \in latest}
      name == DocNames[Cardinality(types) + 1]
      overloads(p) == Len(Members(f, p))
      all ==
        {Declaration(k, name, Root, "", <<>>, <<>>) :
           k \in IF types = {} THEN {"Class", "Interface"} ELSE {}}
        \cup {Declaration("Class", name, Root, t, <<>>, <<>>) : t \in previous}
        \cup {Declaration("Class", name, Root, t, <<DocNames[1]>>, <<>>) :
                 t \in previous \ {DocNames[1]}}
        \cup {Declaration("Interface", name, Root, "", <<>>, <<t>>) : t \in previous}
        \cup {MemberDeclaration(IF f[p].kind = "Class" THEN "Method"
                                ELSE "MethodSignature",
                                "speak", p, FALSE, overloads(p), FALSE) :
                 p \in {j \in latest : overloads(j) < 2}}
  IN IF NumDeclarations(f) < NumChainDecls THEN all ELSE {}

\* the declarations of a lattice of interfaces: the first interface declares
\* speak, a later interface extends no, one or two of the interfaces
\* declared before it, and a class implements one or two of them (two
\* interfaces of a clause are named in the order of their declaration)
DiamondOptions(f) ==
  LET earlier == DOMAIN f \ {Root}
      types == {j \in earlier : f[j].kind \in {"Class", "Interface"}}
      interfaces == {j \in types : f[j].kind = "Interface" /\ Members(f, 1) # <<>>}
      clauses == {<<f[j].displayName>> : j \in interfaces}
                   \cup {<<f[c[1]].displayName, f[c[2]].displayName>> :
                           c \in {d \in interfaces \X interfaces : d[1] < d[2]}}
      name == DocNames[Cardinality(types) + 1]
      all ==
        {Declaration("Interface", name, Root, "", <<>>, <<>>) : k \in {1} \ types}
        \cup {Declaration("Interface", name, Root, "", <<>>, c) : c \in clauses}
        \cup {Declaration("Class", name, Root, "", c, <<>>) : c \in clauses}
        \cup {MemberDeclaration("MethodSignature", "speak", 1, FALSE, 0, FALSE) :
                 k \in {j \in types : j = 1 /\ Members(f, j) = <<>>}}
  IN IF NumDeclarations(f) < NumDiamondDecls THEN all ELSE {}

\* the declarations of a package with members of every sort: a namespace,
\* types and functions at the top level or inside the namespace, methods and
\* constructors of classes, method signatures of interfaces, a class Bar that
\* extends Foo, and enum members, which a model file can also name as
\* members of a namespace
KindOptions(f) ==
  LET earlier == DOMAIN f \ {Root}
      containers == {Root} \cup {j \in earlier : f[j].kind = "Namespace"}
      classes == {j \in earlier : f[j].kind = "Class"}
      interfaces == {j \in earlier : f[j].kind = "Interface"}
      enums == {j \in earlier : f[j].kind = "Enum"}
      all ==
        {Declaration("Namespace", "Foo", Root, "", <<>>, <<>>),
         Declaration("Class", "Bar", Root, "Foo", <<>>, <<>>)}
        \cup {Declaration(k, "Foo", p, "", <<>>, <<>>) :
                k \in {"Class", "Interface", "Enum"}, p \in containers}
        \cup {MemberDeclaration("Function", "run", p, FALSE, 0, FALSE) : p \in containers}
        \cup {MemberDeclaration(k, "run", p, FALSE, 0, FALSE) :
                k \in {"Method", "Constructor"}, p \in classes}
        \cup {MemberDeclaration("MethodSignature", "run", p, FALSE, 0, FALSE) :
                p \in interfaces}
        \cup {MemberDeclaration("EnumMember", "One", p, FALSE, 0, FALSE) :
                p \in enums \cup (containers \ {Root})}
  IN IF NumDeclarations(f) < NumKindDecls THEN {d \in all : FreshIn(f, d)} ELSE {}

\* the declarations of a package with nested scopes: a namespace NS or Bar,
\* an interface or enum Foo, and a class Bar whose extends clause names Foo,
\* NS.Foo or the undeclared Baz, each at the top level or inside an earlier
\* namespace (a class and a namespace of one name merge)
ScopeOptions(f) ==
  LET containers == {Root} \cup {j \in DOMAIN f \ {Root} : f[j].kind = "Namespace"}
      all == {Declaration("Namespace", n, p, "", <<>>, <<>>) :
                n \in {"NS", "Bar"}, p \in containers}
             \cup {Declaration(k, "Foo", p, "", <<>>, <<>>) :
                k \in {"Interface", "Enum"}, p \in containers}
             \cup {Declaration("Class", "Bar", p, e, <<>>, <<>>) :
                e \in {"Foo", "NS.Foo", "Baz"}, p \in containers}
  IN IF NumDeclarations(f) < NumScopeDecls THEN {d \in all : FreshIn(f, d)} ELSE {}

\* the declarations with a page of their own; Root stands for the package
PageOwners(f) ==
  {Root} \cup {d \in DOMAIN f \ {Root} :
                 f[d].kind \in PageKinds /\ f[f[d].parent].kind \in {"EntryPoint", "Namespace"}}

-----------------------------------------------------------------------------
(* generateFiles, for the one package of the model *)

Init ==
  /\ forest = (Root :> EntryPoint)
  /\ pc = "load"
  /\ typeMap = <<>>
  /\ log = <<>>
  /\ visited = <<>>
  /\ inheritanceMap = EmptyMap
  /\ page = [op |-> "none"]
  /\ fsCalls = <<>>

\* the loader adds one declaration to the package (ApiItemContainerMixin.addMember)
LoadDeclaration ==
  /\ pc = "load"
  /\ \E d \in LoadOptions(forest) :
       forest' = forest @@ ((NumDeclarations(forest) + 1) :> d)
  /\ UNCHANGED <<pc, typeMap, log, visited, inheritanceMap, page, fsCalls>>

\* const typeMap = this._generateTypeMapping(apiPackage)
GenerateTypeMapping ==
  /\ pc = "load"
  /\ LET result == GenerateTypeMappingResult(forest)
     IN /\ typeMap' = result.map
        /\ log' = log \o result.log
        /\ visited' = result.visited
  /\ pc' = "typed"
  /\ UNCHANGED <<forest, inheritanceMap, page, fsCalls>>

\* const inheritanceMap = this._generateClassHierarchy({ typeMap }, apiPackage)
GenerateClassHierarchy ==
  /\ pc = "typed"
  /\ inheritanceMap' = GenerateClassHierarchyResult(typeMap, forest)
  /\ pc' = "built"
  /\ UNCHANGED <<forest, typeMap, log, visited, page, fsCalls>>

Next == LoadDeclaration \/ GenerateTypeMapping \/ GenerateClassHierarchy

Spec == Init /\ [][Next]_vars

-----------------------------------------------------------------------------
(* Vocabulary of the properties *)

Range(s) == {s[i] : i \in DOMAIN s}

Declarations == DOMAIN forest \ {Root}

TypeDeclarations == {d \in Declarations : forest[d].kind \in TypeKinds}

ScopedNameOf(d) == GetScopedNameWithinPackage(forest, d)

\* position of a declaration in the visiting order of the type table
VisitIndex(d) == CHOOSE i \in DOMAIN visited : visited[i] = d

Depth(d) == Len(GetHierarchy(forest, d))

\* the clauses of a class or interface: the extends clause of a class first
Clauses(d) ==
  IF forest[d].kind = "Class"
  THEN (IF forest[d].extendsType # "" THEN <<forest[d].extendsType>> ELSE <<>>)
       \o forest[d].implementsTypes
  ELSE IF forest[d].kind = "Interface" THEN forest[d].extendsTypes
  ELSE <<>>

\* the parents a declaration refers to: its parentClass and parentInterfaces
ParentsOf(map, c) ==
  {map.refs[c].parentClass} \cup Range(map.refs[c].parentInterfaces)

\* the forward edges <<child, parent>> whose parent is a resolved declaration
ResolvedEdges ==
  UNION {{<<c, r>> : r \in {x \in ParentsOf(inheritanceMap, c) : IsApiItem(x)}} :
           c \in DOMAIN inheritanceMap.refs}

DuplicateLines(name) ==
  Cardinality({i \in DOMAIN log : log[i] = "Duplicate type for " \o name})

-----------------------------------------------------------------------------
(* Properties of the Hierarchy Resolver *)

\* C1: every forward edge child -> parent with a resolved parent, whether it is
\* the parentClass or a parentInterface of the child, records a Class child in
\* the parent's childClasses and an Interface child in its childInterfaces.
C1_BucketByChildKind ==
  pc = "built" =>
    \A e \in ResolvedEdges :
      /\ e[2].id \in DOMAIN inheritanceMap.refs
      /\ forest[e[1]].kind = "Class" =>
           Item(e[1]) \in Range(inheritanceMap.refs[e[2].id].childClasses)
      /\ forest[e[1]].kind = "Interface" =>
           Item(e[1]) \in Range(inheritanceMap.refs[e[2].id].childInterfaces)

\* C6: every forward edge A -> B with B a resolved declaration has a matching
\* reverse edge, A being in one of B's child lists once the graph is built,
\* also when B had no entry of its own before the reverse pass.
C6_ReverseEdgeExists ==
  pc = "built" =>
    \A e \in ResolvedEdges :
      /\ e[2].id \in DOMAIN inheritanceMap.refs
      /\ Item(e[1]) \in Range(inheritanceMap.refs[e[2].id].childClasses)
                         \cup Range(inheritanceMap.refs[e[2].id].childInterfaces)

\* a built graph with an edge to a parent that is no class or interface and so
\* had no entry before the reverse pass
C6_Witness ==
  /\ pc = "built"
  /\ \E e \in ResolvedEdges :
       /\ forest[e[2].id].kind = "Enum"
       /\ e[2].id \notin DOMAIN ForwardEdges(typeMap, forest).refs
       /\ e[2].id \in DOMAIN inheritanceMap.refs

\* C8: the type table is built breadth-first; a later-visited declaration
\* replaces an earlier one of the same scoped name, with one diagnostic per
\* collision and no abort, so every key maps to the last-visited declaration
\* of that scoped name.
C8_LastVisitedWins ==
  pc # "load" =>
       /\ Len(visited) = Cardinality(DOMAIN forest)
       /\ Range(visited) = DOMAIN forest
       /\ \A i, j \in DOMAIN visited :
            i < j => Depth(visited[i]) <= Depth(visited[j])
       /\ DOMAIN typeMap = {ScopedNameOf(d) : d \in TypeDeclarations}
       /\ \A d \in TypeDeclarations :
            /\ ScopedNameOf(typeMap[ScopedNameOf(d)]) = ScopedNameOf(d)
            /\ typeMap[ScopedNameOf(d)] \in TypeDeclarations
            /\ VisitIndex(typeMap[ScopedNameOf(d)]) >= VisitIndex(d)
       /\ Len(log) = Cardinality(TypeDeclarations) - Cardinality(DOMAIN typeMap)

\* a finished table in which a declaration of a nested scope collided and the
\* first one written is no longer in the table
C8_Witness ==
  /\ pc # "load"
  /\ \E d \in TypeDeclarations :
       /\ typeMap[ScopedNameOf(d)] # d
       /\ Depth(d) > 2
  /\ Len(log) >= 1

ResultDeclarations == {d \in TypeDeclarations : forest[d].displayName = "Result"}

SameScopedName(d) == {x \in TypeDeclarations : ScopedNameOf(x) = ScopedNameOf(d)}

\* C9: of two declarations named Result at different scopes, the second visited
\* after the first, every lookup of Result resolves to the second one and one
\* DuplicateTypeName diagnostic is logged.
C9_SecondResultEverywhere ==
  pc # "load" =>
    \A d1, d2 \in ResultDeclarations :
      (/\ ResultDeclarations = {d1, d2}
       /\ forest[d1].parent # forest[d2].parent
       /\ VisitIndex(d1) < VisitIndex(d2))
      => /\ \A origin \in DOMAIN forest :
              ResolveType(typeMap, forest, origin, "Result") = Item(d2)
         /\ Cardinality({i \in DOMAIN log :
              log[i] \in {"Duplicate type for " \o ScopedNameOf(d1),
                          "Duplicate type for " \o ScopedNameOf(d2)}}) = 1

\* C9 (amended): declarations named Result collide only when they lie in the
\* same scope and so have the same scoped name: the table then maps the name
\* to the later-visited one, no lookup of Result returns the earlier one, and
\* two such declarations log one diagnostic. At different scopes the scoped
\* names differ: a declaration alone under its scoped name stays in the
\* table, logs nothing and is what a lookup from its enclosing scope returns.
C9_CollisionOnlyInSameScope ==
  pc # "load" =>
    \A d1, d2 \in ResultDeclarations :
      VisitIndex(d1) < VisitIndex(d2) =>
        /\ forest[d1].parent = forest[d2].parent =>
             /\ ScopedNameOf(d1) = ScopedNameOf(d2)
             /\ typeMap[ScopedNameOf(d1)] # d1
             /\ \A origin \in DOMAIN forest :
                  ResolveType(typeMap, forest, origin, "Result") # Item(d1)
             /\ SameScopedName(d1) = {d1, d2} =>
                  /\ typeMap[ScopedNameOf(d1)] = d2
                  /\ DuplicateLines(ScopedNameOf(d1)) = 1
        /\ forest[d1].parent # forest[d2].parent =>
             /\ ScopedNameOf(d1) # ScopedNameOf(d2)
             /\ \A d \in {d1, d2} :
                  SameScopedName(d) = {d} =>
                    /\ typeMap[ScopedNameOf(d)] = d
                    /\ DuplicateLines(ScopedNameOf(d)) = 0
                    /\ ResolveType(typeMap, forest, forest[d].parent, "Result") = Item(d)

\* a finished table for a namespace holding two merged declarations named
\* Result, looked up from inside the namespace
C9_Witness ==
  /\ pc # "load"
  /\ \E d1, d2 \in ResultDeclarations :
       /\ VisitIndex(d1) < VisitIndex(d2)
       /\ forest[d1].parent = forest[d2].parent
       /\ forest[d1].parent # Root
       /\ ResolveType(typeMap, forest, d1, "Result") = Item(d2)
       /\ DuplicateLines(ScopedNameOf(d1)) = 1

HeritageDeclarations ==
  {d \in Declarations : forest[d].kind \in {"Class", "Interface"}}

\* C10: every extends/implements text of a class or interface, also one that
\* is not a plain type reference, is recorded as a parent that is a resolved
\* declaration or a plain-text label.
C10_EveryClauseRecorded ==
  pc = "built" =>
    \A d \in HeritageDeclarations :
      /\ d \in DOMAIN inheritanceMap.refs
      /\ (forest[d].kind = "Class" /\ forest[d].extendsType # "") =>
           inheritanceMap.refs[d].parentClass.tag \in {"item", "label"}
      /\ Len(inheritanceMap.refs[d].parentInterfaces) =
           Len(IF forest[d].kind = "Class" THEN forest[d].implementsTypes
               ELSE forest[d].extendsTypes)
      /\ \A r \in Range(inheritanceMap.refs[d].parentInterfaces) :
           r.tag \in {"item", "label"}

\* what is recorded for one clause of the declaration d
ClauseOutcome(d, text, r) ==
  IF GetType(text).kind # "TypeReference" THEN r = Undefined
  ELSE /\ r.tag \in {"item", "label"}
       /\ r.tag = "item" =>
            /\ r.id \in TypeDeclarations
            /\ forest[r.id].displayName = GetType(text).typeName
            /\ typeMap[ScopedNameOf(r.id)] = r.id
       /\ r.tag = "label" =>
            /\ r.text = GetType(text).typeName
            /\ r.text \notin DOMAIN typeMap

TypeReferenceClauses(texts) ==
  SelectSeq(texts, LAMBDA t : GetType(t).kind = "TypeReference")

\* C10 (amended): the resolver is total: a clause that is a type reference is
\* recorded as a resolved declaration or, when its name does not resolve, as a
\* plain-text label; a clause that is not a type reference records nothing
\* (parentClass stays undefined, the interface clause is dropped).
C10_ClauseRecordedOrOmitted ==
  pc = "built" =>
    \A d \in HeritageDeclarations :
      /\ d \in DOMAIN inheritanceMap.refs
      /\ IF forest[d].kind = "Class" /\ forest[d].extendsType # ""
         THEN ClauseOutcome(d, forest[d].extendsType,
                            inheritanceMap.refs[d].parentClass)
         ELSE inheritanceMap.refs[d].parentClass = Undefined
      /\ LET texts == TypeReferenceClauses(
                        IF forest[d].kind = "Class" THEN forest[d].implementsTypes
                        ELSE forest[d].extendsTypes)
             parents == inheritanceMap.refs[d].parentInterfaces
         IN /\ Len(parents) = Len(texts)
            /\ \A i \in DOMAIN texts : ClauseOutcome(d, texts[i], parents[i])

\* a built graph with a class whose extends clause is no type reference and
\* whose implements clause is kept as a label
C10_Witness ==
  /\ pc = "built"
  /\ \E d \in HeritageDeclarations :
       /\ forest[d].extendsType = "typeof A"
       /\ inheritanceMap.refs[d].parentClass = Undefined
       /\ inheritanceMap.refs[d].parentInterfaces = <<Label("X")>>
  /\ \E d \in HeritageDeclarations :
       /\ forest[d].extendsTypes = <<"typeof A">>
       /\ inheritanceMap.refs[d].parentInterfaces = <<>>

-----------------------------------------------------------------------------
(* Links between pages *)

\* the loader adds one declaration to a forest of pages
LoadPathDeclaration ==
  /\ pc = "load"
  /\ \E d \in PathOptions(forest) :
       forest' = forest @@ ((NumDeclarations(forest) + 1) :> d)
  /\ UNCHANGED <<pc, typeMap, log, visited, inheritanceMap, page, fsCalls>>

\* this._getLinkFilenameForApiItem(context, apiItem) while the page of origin
\* is built: context.filename is the path of that page
GetLinkFilename ==
  /\ pc = "built"
  /\ \E origin \in PageOwners(forest), target \in DOMAIN forest :
       LET filename == GetFilenameForApiItem(forest, origin)
       IN page' = [op |-> "link", origin |-> origin, filename |-> filename,
                   target |-> target,
                   targetFilename |-> GetFilenameForApiItem(forest, target),
                   link |-> GetLinkFilenameForApiItem(forest, filename, target)]
  /\ UNCHANGED <<forest, pc, typeMap, log, visited, inheritanceMap, fsCalls>>

NextPaths ==
  \/ LoadPathDeclaration
  \/ GenerateTypeMapping
  \/ GenerateClassHierarchy
  \/ GetLinkFilename

SpecPaths == Init /\ [][NextPaths]_vars

\* the directory a page lies in
DirectoryOf(path) == [i \in 1..(Len(path) - 1) |-> path[i]]

\* the path a relative link leads to from a directory
RECURSIVE FollowLink(_, _)
FollowLink(dir, link) ==
  IF link = <<>> THEN dir
  ELSE CASE Head(link) = "." -> FollowLink(dir, Tail(link))
         [] Head(link) = ".." /\ dir # <<>> -> FollowLink(DirectoryOf(dir), Tail(link))
         [] OTHER -> FollowLink(Append(dir, Head(link)), Tail(link))

\* C7: the link from any origin page to any target declaration, followed from
\* the directory of the origin page, leads to the path of the target with its
\* anchor, and the link starts with ./ or ../.
C7_LinkRoundTrips ==
  page.op = "link" =>
    /\ page.filename = GetFilenameForApiItem(forest, page.origin)
    /\ FollowLink(DirectoryOf(page.filename), page.link)
         = GetFilenameForApiItem(forest, page.target)
    /\ Len(page.link) >= 2
    /\ Head(page.link) \in {".", ".."}

\* a link from the page of a class nested in a namespace up to the page of an
\* overload of a top-level function
C7_Witness ==
  /\ page.op = "link"
  /\ Len(page.filename) = 4
  /\ forest[page.target].kind = "Function"
  /\ forest[page.target].overloadIndex = 1
  /\ forest[page.target].parent = Root
  /\ Head(page.link) = ".."

-----------------------------------------------------------------------------
(* Pages of classes and interfaces *)

\* the loader adds one declaration to a forest of types with members
LoadMemberDeclaration ==
  /\ pc = "load"
  /\ \E d \in MemberOptions(forest) :
       forest' = forest @@ ((NumDeclarations(forest) + 1) :> d)
  /\ UNCHANGED <<pc, typeMap, log, visited, inheritanceMap, page, fsCalls>>

\* this._writeApiItemBody(context, apiItem) for the page of a class or an
\* interface: the diagrams of the item, then its member tables
WriteApiItemBody ==
  /\ pc = "built"
  /\ \E apiItem \in PageOwners(forest) \ {Root} :
       /\ forest[apiItem].kind \in {"Class", "Interface"}
       /\ LET filename == GetFilenameForApiItem(forest, apiItem)
              isClass == forest[apiItem].kind = "Class"
              classHierarchy ==
                IF isClass
                THEN WriteClassHierarchySection(forest, inheritanceMap, filename, apiItem)
                ELSE NoSection
              implementations ==
                WriteInterfaceImplementationsSection(forest, inheritanceMap,
                                                     filename, apiItem)
              implementors ==
                IF isClass THEN NoSection
                ELSE WriteInterfaceImplementorsSection(forest, inheritanceMap,
                                                       filename, apiItem)
              tables == WriteMemberTables(forest, inheritanceMap, filename, apiItem)
          IN page' = [op |-> "body", item |-> apiItem, filename |-> filename,
                      title |-> forest[apiItem].kind \o " "
                                  \o GetScopedNameWithinPackage(forest, apiItem),
                      classHierarchy |-> classHierarchy,
                      implementations |-> implementations,
                      implementors |-> implementors,
                      resolvedMembers |-> tables.resolvedMembers,
                      rows |-> tables.rows,
                      diverges |-> \/ classHierarchy.diverges
                                   \/ implementations.diverges
                                   \/ implementors.diverges
                                   \/ tables.diverges]
       /\ inheritanceMap' = GraphAfterInheritedWalk(inheritanceMap, apiItem)
       /\ forest' = ForestAfterResolve(forest, apiItem)
  /\ UNCHANGED <<pc, typeMap, log, visited, fsCalls>>

NextPages ==
  \/ LoadDeclaration
  \/ GenerateTypeMapping
  \/ GenerateClassHierarchy
  \/ WriteApiItemBody

SpecPages == Init /\ [][NextPages]_vars

NextMembers ==
  \/ LoadMemberDeclaration
  \/ GenerateTypeMapping
  \/ GenerateClassHierarchy
  \/ WriteApiItemBody

SpecMembers == Init /\ [][NextMembers]_vars

BodyWritten == page.op = "body"

\* the declarations a type points to as parentClass or parentInterfaces
ItemParents(c) ==
  {r.id : r \in {x \in Range(ParentsInOrder(inheritanceMap, c)) : IsApiItem(x)}}

RECURSIVE AncestorsWithin(_, _)
AncestorsWithin(S, n) ==
  IF n = 0 THEN S
  ELSE AncestorsWithin(S \cup UNION {ItemParents(c) : c \in S}, n - 1)

\* the resolved ancestors of a type
Ancestors(item) == AncestorsWithin(ItemParents(item), NumDeclarations(forest))

OwnMembers(item) == Range(Members(forest, item))

OwnNames(item) == {forest[m].displayName : m \in OwnMembers(item)}

InheritedNames(item) ==
  {forest[m].displayName : m \in UNION {OwnMembers(a) : a \in Ancestors(item)}}

EntryMember(m) == IF m.ownMember # NoMember THEN m.ownMember ELSE m.parents[1]

EntryName(m) == forest[EntryMember(m)].displayName

-----------------------------------------------------------------------------
(* Properties of the Member Resolver *)

\* C3, as stated: the resolved members of an item hold exactly one entry per
\* distinct member name of the item and of its resolved ancestors, and the
\* names of the entries increase strictly.
C3_OneEntryPerName ==
  (BodyWritten /\ ~page.diverges) =>
    LET rm == page.resolvedMembers
    IN /\ {EntryName(rm[i]) : i \in DOMAIN rm}
            = OwnNames(page.item) \cup InheritedNames(page.item)
       /\ \A i, j \in DOMAIN rm :
            i < j => NameRank(EntryName(rm[i])) < NameRank(EntryName(rm[j]))

\* C3, amended: whenever the resolved members of an item are returned, they
\* hold one entry for each member the item declares (each overload of a name
\* has an entry of its own) and one entry, without an own member, for each
\* name that only resolved ancestors declare; the chain of an entry holds
\* members of that name declared by resolved ancestors; the names of the
\* entries never decrease.
C3_EntryPerOwnMemberOrInheritedName ==
  (BodyWritten /\ ~page.diverges) =>
    LET rm == page.resolvedMembers
        item == page.item
        inheritedOnly == InheritedNames(item) \ OwnNames(item)
    IN /\ \A m \in OwnMembers(item) :
            Cardinality({i \in DOMAIN rm : rm[i].ownMember = m}) = 1
       /\ \A n \in inheritedOnly :
            Cardinality({i \in DOMAIN rm : EntryName(rm[i]) = n}) = 1
       /\ Len(rm) = Cardinality(OwnMembers(item)) + Cardinality(inheritedOnly)
       /\ \A i \in DOMAIN rm :
            /\ rm[i].ownMember = NoMember => rm[i].parents # <<>>
            /\ \A k \in DOMAIN rm[i].parents :
                 /\ forest[rm[i].parents[k]].displayName = EntryName(rm[i])
                 /\ forest[rm[i].parents[k]].parent \in Ancestors(item)
       /\ \A n \in InheritedNames(item) :
            \E i \in DOMAIN rm : EntryName(rm[i]) = n /\ rm[i].parents # <<>>
       /\ \A i, j \in DOMAIN rm :
            i < j => NameRank(EntryName(rm[i])) <= NameRank(EntryName(rm[j]))

\* the members of a class with two overloads of one method, declared after a
\* property that sorts before them, have been resolved
C3_Witness ==
  /\ BodyWritten
  /\ ~page.diverges
  /\ Len(page.resolvedMembers) = 3
  /\ \E i, j \in DOMAIN page.resolvedMembers :
       /\ i < j
       /\ EntryName(page.resolvedMembers[i]) = EntryName(page.resolvedMembers[j])
       /\ page.resolvedMembers[j].ownMember < page.resolvedMembers[1].ownMember

\* C5: the note of a method of a class whose nearest chain entry is a method
\* signature of an implemented interface (or of a property whose nearest
\* chain entry is a property signature) reads "Implements " and links to the
\* page of the interface with the anchor of the member.
C5_ImplementsNote ==
  BodyWritten =>
    \A i \in DOMAIN page.rows :
      LET row == page.rows[i]
      IN (/\ row.details
          /\ row.parents # <<>>
          /\ \/ /\ forest[row.apiMember].kind = "Method"
                /\ forest[row.parents[1]].kind = "MethodSignature"
             \/ /\ forest[row.apiMember].kind = "Property"
                /\ forest[row.parents[1]].kind = "PropertySignature")
         => /\ row.note.present
            /\ row.note.text = "Implements "
            /\ FollowLink(DirectoryOf(page.filename), row.note.urlDestination)
                 = GetFilenameForApiItem(forest, row.parents[1])

-----------------------------------------------------------------------------
(* Properties of the hierarchy diagrams *)

\* the class a class points to as parentClass, if it is a declaration
ParentClassOf(c) ==
  IF MapHas(inheritanceMap, c) /\ IsApiItem(inheritanceMap.refs[c].parentClass)
  THEN {inheritanceMap.refs[c].parentClass.id} ELSE {}

\* the chain of parentClass pointers above a class, root ancestor first
RECURSIVE ClassChain(_, _)
ClassChain(c, fuel) ==
  IF fuel = 0 \/ ParentClassOf(c) = {} THEN <<c>>
  ELSE Append(ClassChain(CHOOSE p \in ParentClassOf(c) : TRUE, fuel - 1), c)

ChildClassesOf(c) ==
  IF MapHas(inheritanceMap, c)
  THEN {r.id : r \in {x \in Range(inheritanceMap.refs[c].childClasses) : IsApiItem(x)}}
  ELSE {}

RECURSIVE DescendantsWithin(_, _)
DescendantsWithin(S, n) ==
  IF n = 0 THEN S
  ELSE DescendantsWithin(S \cup UNION {ChildClassesOf(c) : c \in S}, n - 1)

\* the declarations reachable from a class via childClasses
Descendants(item) == DescendantsWithin(ChildClassesOf(item), NumDeclarations(forest))

\* C2: for a class at the bottom of a chain of classes without a cycle, the
\* class-hierarchy diagram of its page holds the ancestor path from the root
\* ancestor down to the class, one level deeper at each step, and every
\* descendant reachable via childClasses, and exactly one node of the
\* diagram, the class itself, is bold.
C2_DiagramHoldsChain ==
  (/\ BodyWritten
   /\ ~page.diverges
   /\ forest[page.item].kind = "Class"
   /\ ParentClassOf(page.item) # {}
   /\ \A c \in Range(ClassChain(page.item, NumDeclarations(forest))) :
        forest[c].kind = "Class")
  => LET list == page.classHierarchy.list
         chain == ClassChain(page.item, NumDeclarations(forest))
     IN /\ page.classHierarchy.heading = "Class Hierarchy"
        /\ \A k \in DOMAIN chain :
             \E i \in DOMAIN list :
               list[i].item = Item(chain[k]) /\ list[i].depth = k - 1
        /\ \A d \in Descendants(page.item) :
             \E i \in DOMAIN list : list[i].item = Item(d)
        /\ Cardinality({i \in DOMAIN list : list[i].style = "bold"}) = 1
        /\ \A i \in DOMAIN list :
             list[i].style = "bold" <=> list[i].item = Item(page.item)

\* C4: the inherited-member walk and the construction of the diagram trees
\* of a page end for every inheritance graph, including one with a cycle.
C4_WalksTerminate == BodyWritten => ~page.diverges

-----------------------------------------------------------------------------
(* The keys of the inheritance graph *)

GraphKeys == Range(inheritanceMap.keys)

\* C11, as stated: every key of the built graph is a class or an interface.
C11_KeysAreClassesOrInterfaces ==
  pc = "built" => \A k \in GraphKeys : forest[k].kind \in {"Class", "Interface"}

\* C11, amended: the keys of the built graph are the classes and interfaces
\* of the package and, besides them, exactly the enums and type aliases that
\* a heritage clause of a class or interface resolves to; such a key has no
\* parents of its own and holds the declarations that refer to it as children.
C11_KeysAreTypesOrResolvedParents ==
  pc = "built" =>
    /\ \A d \in Declarations :
         forest[d].kind \in {"Class", "Interface"} => d \in GraphKeys
    /\ \A k \in GraphKeys :
         \/ forest[k].kind \in {"Class", "Interface"}
         \/ /\ forest[k].kind \in {"Enum", "TypeAlias"}
            /\ \E e \in ResolvedEdges : e[2] = Item(k)
            /\ inheritanceMap.refs[k].parentClass = Undefined
            /\ inheritanceMap.refs[k].parentInterfaces = <<>>
            /\ Len(inheritanceMap.refs[k].childClasses)
                 + Len(inheritanceMap.refs[k].childInterfaces) > 0
    /\ \A i, j \in DOMAIN inheritanceMap.keys :
         inheritanceMap.keys[i] = inheritanceMap.keys[j] => i = j

\* a built graph one of whose keys is a type alias that a class extends by name
C11_Witness ==
  /\ pc = "built"
  /\ \E k \in GraphKeys :
       /\ forest[k].kind = "TypeAlias"
       /\ \E e \in ResolvedEdges : e[2] = Item(k) /\ forest[e[1]].kind = "Class"

-----------------------------------------------------------------------------
(* Markdown emitter: a text is the sequence of its characters *)

RECURSIVE ReplaceCharacters(_, _, _)
\* text.replace(/[chars]/g, x => prefix + x)
ReplaceCharacters(text, chars, prefix) ==
  IF text = <<>> THEN <<>>
  ELSE (IF Head(text) \in chars THEN prefix \o <<Head(text)>> ELSE <<Head(text)>>)
       \o ReplaceCharacters(Tail(text), chars, prefix)

RECURSIVE ReplaceCharacter(_, _, _)
\* text.replace(/c/g, replacement)
ReplaceCharacter(text, c, replacement) ==
  IF text = <<>> THEN <<>>
  ELSE (IF Head(text) = c THEN replacement ELSE <<Head(text)>>)
       \o ReplaceCharacter(Tail(text), c, replacement)

RECURSIVE ReplaceHyphens(_)
\* text.replace(/---/g, '\\-\\-\\-')
ReplaceHyphens(text) ==
  IF text = <<>> THEN <<>>
  ELSE IF Len(text) >= 3 /\ text[1] = "-" /\ text[2] = "-" /\ text[3] = "-"
       THEN <<"\\", "-", "\\", "-", "\\", "-">> \o ReplaceHyphens(SubSeq(text, 4, Len(text)))
       ELSE <<Head(text)>> \o ReplaceHyphens(Tail(text))

\* the backtick character, which a string of this language cannot hold
Backtick == "BACKTICK"

SpecialCharacters == {"*", "#", "[", "]", "_", "|", Backtick, "~"}

\* an escaping that replaces the escape character last
GetEscapedTextBackslashLast(text) ==
  ReplaceCharacter(ReplaceCharacter(ReplaceCharacter(
    ReplaceCharacters(
      ReplaceHyphens(ReplaceCharacters(text, SpecialCharacters, <<"\\">>)),
      {"\\"}, <<"\\">>),
    "&", <<"&", "a", "m", "p", ";">>),
    "<", <<"&", "l", "t", ";">>),
    ">", <<"&", "g", "t", ";">>)

\* getEscapedText
GetEscapedText(text) ==
  ReplaceCharacter(ReplaceCharacter(ReplaceCharacter(
    ReplaceHyphens(
      ReplaceCharacters(ReplaceCharacters(text, {"\\"}, <<"\\">>),
                        SpecialCharacters, <<"\\">>)),
    "&", <<"&", "a", "m", "p", ";">>),
    "<", <<"&", "l", "t", ";">>),
    ">", <<"&", "g", "t", ";">>)

\* a table without a header
NoHeader == [present |-> FALSE, cells |-> <<>>]

RECURSIVE Concat(_)
Concat(texts) == IF texts = <<>> THEN <<>> ELSE Head(texts) \o Concat(Tail(texts))

\* writer.write(' '); this.writeNode(cell.content, context, false);
\* writer.write(' |'): the content of a cell is a paragraph of plain text
\* without white space, written by writePlainText after a space
WriteCell(cell) == <<" ">> \o GetEscapedText(cell) \o <<" ", "|">>

\* a table whose header and divider are as long as the header only
WriteTableHeaderSized(header, rows) ==
  LET columnCount == IF header.present THEN Len(header.cells) ELSE 0
      headerLine ==
        <<"|", " ">> \o Concat([i \in 1..columnCount |-> WriteCell(header.cells[i])])
      divider ==
        <<"|", " ">> \o Concat([i \in 1..columnCount |-> <<" ", "-", "-", "-", " ", "|">>])
      rowLine(row) == <<"|", " ">> \o Concat([i \in DOMAIN row |-> WriteCell(row[i])])
  IN [columnCount |-> columnCount,
      lines |-> <<headerLine, divider>> \o [i \in DOMAIN rows |-> rowLine(rows[i])]]

\* writeNode, case CustomDocNodeKind.Table: the lines written
WriteTable(header, rows) ==
  LET headerCount == IF header.present THEN Len(header.cells) ELSE 0
      longer == {Len(rows[i]) : i \in DOMAIN rows} \cup {headerCount}
      columnCount == CHOOSE n \in longer : \A m \in longer : m <= n
      headerLine ==
        <<"|", " ">> \o
        Concat([i \in 1..columnCount |->
                  IF header.present /\ i <= Len(header.cells)
                  THEN WriteCell(header.cells[i])
                  ELSE <<" ", " ", "|">>])
      divider ==
        <<"|", " ">> \o Concat([i \in 1..columnCount |-> <<" ", "-", "-", "-", " ", "|">>])
      rowLine(row) == <<"|", " ">> \o Concat([i \in DOMAIN row |-> WriteCell(row[i])])
  IN [columnCount |-> columnCount,
      lines |-> <<headerLine, divider>> \o [i \in DOMAIN rows |-> rowLine(rows[i])]]

\* the characters of the texts that are escaped
Characters ==
  {"\\", "*", "#", "[", "]", "_", "|", Backtick, "-", "&", "<", ">", "a"}

RECURSIVE TextsUpTo(_, _)
TextsUpTo(chars, n) ==
  IF n = 0 THEN {<<>>}
  ELSE LET shorter == TextsUpTo(chars, n - 1)
       IN shorter \cup {Append(t, c) : t \in shorter, c \in chars}

\* the contents of the cells of the tables
CellTexts == {<<"a">>, <<"|">>}

\* the rows of the tables: up to MaxCells cells
TableRows == TextsUpTo(CellTexts, MaxCells)

\* this.getEscapedText(text), on a fresh emitter
EscapeText ==
  /\ page.op = "none"
  /\ \E text \in TextsUpTo(Characters, MaxTextLen) :
       page' = [op |-> "escape", text |-> text, output |-> GetEscapedText(text)]
  /\ UNCHANGED <<forest, pc, typeMap, log, visited, inheritanceMap, fsCalls>>

\* this.writeNode(docTable, context, hasNextSibling) for a table of up to two rows
EmitTable ==
  /\ page.op = "none"
  /\ \E header \in {NoHeader} \cup {[present |-> TRUE, cells |-> c] : c \in TableRows},
        rows \in {<<>>} \cup {<<r>> : r \in TableRows}
                 \cup {<<r, q>> : r \in TableRows, q \in TableRows} :
       LET written == WriteTable(header, rows)
       IN page' = [op |-> "table", header |-> header, rows |-> rows,
                   columnCount |-> written.columnCount, lines |-> written.lines]
  /\ UNCHANGED <<forest, pc, typeMap, log, visited, inheritanceMap, fsCalls>>

NextEmit == EscapeText \/ EmitTable

SpecEmit == Init /\ [][NextEmit]_vars

-----------------------------------------------------------------------------
(* Properties of the markdown emitter *)

\* the number of backslashes that end right before position i of a text
RECURSIVE BackslashesBefore(_, _)
BackslashesBefore(text, i) ==
  IF i > 1 /\ text[i - 1] = "\\" THEN 1 + BackslashesBefore(text, i - 1) ELSE 0

\* the pipes of a line that no backslash escapes
UnescapedPipes(line) ==
  {i \in DOMAIN line : line[i] = "|" /\ BackslashesBefore(line, i) % 2 = 0}

\* the columns of a line of a table: it starts with a pipe, and a pipe ends
\* each cell
ColumnsOf(line) == Cardinality(UnescapedPipes(line)) - 1

HeaderCount(header) == IF header.present THEN Len(header.cells) ELSE 0

\* C12, as stated: the header row, the divider row and every data row of an
\* emitted table have columnCount columns, columnCount being the larger of
\* the header's cell count and the longest row's cell count.
C12_EveryLineHasColumnCount ==
  page.op = "table" =>
    /\ \A n \in {HeaderCount(page.header)} \cup {Len(page.rows[i]) : i \in DOMAIN page.rows} :
         n <= page.columnCount
    /\ page.columnCount \in
         {HeaderCount(page.header)} \cup {Len(page.rows[i]) : i \in DOMAIN page.rows}
    /\ \A i \in DOMAIN page.lines : ColumnsOf(page.lines[i]) = page.columnCount

\* C12, amended: the header row and the divider row have columnCount columns,
\* the cells missing from a shorter header being written as empty cells; a
\* data row is written with its own cells only, so a row shorter than
\* columnCount has fewer columns and no row has more.
C12_HeaderAndDividerHaveColumnCount ==
  page.op = "table" =>
    /\ \A n \in {HeaderCount(page.header)} \cup {Len(page.rows[i]) : i \in DOMAIN page.rows} :
         n <= page.columnCount
    /\ page.columnCount \in
         {HeaderCount(page.header)} \cup {Len(page.rows[i]) : i \in DOMAIN page.rows}
    /\ Len(page.lines) = Len(page.rows) + 2
    /\ ColumnsOf(page.lines[1]) = page.columnCount
    /\ ColumnsOf(page.lines[2]) = page.columnCount
    /\ page.lines[1] =
         <<"|", " ">> \o
         Concat([i \in 1..page.columnCount |->
                   IF i <= HeaderCount(page.header)
                   THEN <<" ">> \o GetEscapedText(page.header.cells[i]) \o <<" ", "|">>
                   ELSE <<" ", " ", "|">>])
    /\ \A i \in DOMAIN page.rows :
         ColumnsOf(page.lines[i + 2]) = Len(page.rows[i])

\* a table with a header of two cells, one of them holding a pipe, a row of
\* three cells and a row of one cell
C12_Witness ==
  /\ page.op = "table"
  /\ HeaderCount(page.header) = 2
  /\ \E i \in DOMAIN page.header.cells : page.header.cells[i] = <<"|">>
  /\ Len(page.rows) = 2
  /\ Len(page.rows[1]) = 3
  /\ Len(page.rows[2]) = 1

\* C13: in the output of getEscapedText every * # [ ] _ | and backtick is
\* preceded by an escaping backslash that is not itself escaped, and there is
\* no < or > and no & other than the one that starts &amp; &lt; or &gt;.
C13_NothingUnescaped ==
  page.op = "escape" =>
    LET out == page.output
        entityAt(i, name) ==
          /\ i + Len(name) <= Len(out)
          /\ SubSeq(out, i + 1, i + Len(name)) = name
    IN \A i \in DOMAIN out :
         /\ out[i] \in {"*", "#", "[", "]", "_", "|", Backtick} =>
              BackslashesBefore(out, i) % 2 = 1
         /\ out[i] \notin {"<", ">"}
         /\ out[i] = "&" =>
              \/ entityAt(i, <<"a", "m", "p", ";">>)
              \/ entityAt(i, <<"l", "t", ";">>)
              \/ entityAt(i, <<"g", "t", ";">>)

\* a text with a backslash right before a special character and an angle
\* bracket has been escaped
C13_Witness ==
  /\ page.op = "escape"
  /\ page.text = <<"\\", "*", "<">>
  /\ page.output = <<"\\", "\\", "\\", "*", "&", "l", "t", ";">>

-----------------------------------------------------------------------------
(* Pages of documented members *)

\* the loader adds one declaration to a chain of documented types
LoadDocumentedDeclaration ==
  /\ pc = "load"
  /\ \E d \in DocOptions(forest) :
       forest' = forest @@ ((NumDeclarations(forest) + 1) :> d)
  /\ UNCHANGED <<pc, typeMap, log, visited, inheritanceMap, page, fsCalls>>

NextDocs ==
  \/ LoadDocumentedDeclaration
  \/ GenerateTypeMapping
  \/ GenerateClassHierarchy
  \/ WriteApiItemBody

SpecDocs == Init /\ [][NextDocs]_vars

-----------------------------------------------------------------------------
(* Properties of the pages of documented members *)

\* the first non-empty summary of a list of items, if any
NearestSummary(items) ==
  LET documented == {i \in DOMAIN items : forest[items[i]].doc = "summary"}
  IN IF documented = {} THEN ""
     ELSE SummaryOf(forest, items[CHOOSE i \in documented : \A j \in documented : i <= j])

\* C14: for a member without a doc comment or with an empty summary, the
\* summary of its description cell and, if it has a detail section, of that
\* section is the first non-empty summary of the member and its chain.
C14_SummaryOfNearestDocumented ==
  BodyWritten =>
    \A i \in DOMAIN page.rows :
      LET row == page.rows[i]
          expected == NearestSummary(<<row.apiMember>> \o row.parents)
      IN forest[row.apiMember].doc \in {"none", "empty"} =>
           /\ row.description.text = expected
           /\ row.details => row.detailSummary.text = expected

\* C15: the page of a class Dog without clauses, without a declaration that
\* refers to it and with the one method bark is titled "Class Dog", has one
\* row, in the Methods table, that links to the anchor bark-method of the
\* page itself, and has no Class Hierarchy section.
C15_LoneClassPage ==
  (/\ BodyWritten
   /\ forest[page.item].kind = "Class"
   /\ forest[page.item].displayName = "Dog"
   /\ Clauses(page.item) = <<>>
   /\ \A e \in ResolvedEdges : e[2] # Item(page.item)
   /\ Len(Members(forest, page.item)) = 1
   /\ \A m \in OwnMembers(page.item) :
        forest[m].kind = "Method" /\ forest[m].displayName = "bark")
  => /\ page.title = "Class Dog"
     /\ Len(page.rows) = 1
     /\ page.rows[1].table = "Methods"
     /\ page.rows[1].apiMember \in OwnMembers(page.item)
     /\ page.rows[1].titleLink = <<".", "dog.md#bark-method">>
     /\ page.filename = <<"classes", "dog.md">>
     /\ page.classHierarchy = NoSection

\* the page of the lone class Dog with its method bark has been written
C15_Witness ==
  /\ BodyWritten
  /\ NumDeclarations(forest) = 2
  /\ forest[page.item].kind = "Class"
  /\ forest[page.item].displayName = "Dog"
  /\ Len(page.rows) = 1
  /\ forest[page.rows[1].apiMember].displayName = "bark"

-----------------------------------------------------------------------------
(* Frame of the page generation *)

-----------------------------------------------------------------------------
(* One run of generateFiles over the packages of the model *)

\* the declarations of a package of a run: those of a forest of pages, a
\* class Foo whose extends clause names Foo, and a class and a variable foo
RunOptions(f) ==
  LET containers == {Root} \cup {j \in DOMAIN f \ {Root} : f[j].kind = "Namespace"}
      all == PathOptions(f)
             \cup {Declaration("Class", "Foo", p, "Foo", <<>>, <<>>) : p \in containers}
             \cup {Declaration("Class", "foo", p, "", <<>>, <<>>) : p \in containers}
             \cup {MemberDeclaration("Variable", "foo", p, FALSE, 0, FALSE) :
                     p \in containers}
  IN IF NumDeclarations(f) < NumRunDecls THEN {d \in all : FreshIn(f, d)} ELSE {}

\* the loader adds one declaration to the first package of the run
LoadRunDeclaration ==
  /\ pc = "load"
  /\ \E d \in RunOptions(forest) :
       forest' = forest @@ ((NumDeclarations(forest) + 1) :> d)
  /\ UNCHANGED <<pc, typeMap, log, visited, inheritanceMap, page, fsCalls>>

\* generateFiles up to its loop: this._deleteOldOutputFiles()
DeleteOldOutputFiles ==
  /\ pc = "load"
  /\ log' = Append(log, "Deleting old output from ")
  /\ fsCalls' = Append(fsCalls, [op |-> "emptyDirSync", filename |-> <<>>, item |-> Root, package |-> 0])
  /\ pc' = "package"
  /\ UNCHANGED <<forest, typeMap, visited, inheritanceMap, page>>

\* an iteration that empties the output folder again before its package
GenerateTypeMappingOfPackageClearing ==
  /\ pc = "package"
  /\ LET result == GenerateTypeMappingResult(forest)
     IN /\ typeMap' = result.map
        /\ log' = Append(log, "Writing package") \o result.log
        /\ visited' = result.visited
  /\ fsCalls' = Append(fsCalls, [op |-> "emptyDirSync", filename |-> <<>>, item |-> Root, package |-> 0])
  /\ pc' = "typed"
  /\ UNCHANGED <<forest, inheritanceMap, page>>

\* the start of an iteration of the loop: console.log(`Writing ... package`)
\* and const typeMap = this._generateTypeMapping(apiPackage)
GenerateTypeMappingOfPackage ==
  /\ pc = "package"
  /\ LET result == GenerateTypeMappingResult(forest)
     IN /\ typeMap' = result.map
        /\ log' = Append(log, "Writing package") \o result.log
        /\ visited' = result.visited
  /\ pc' = "typed"
  /\ UNCHANGED <<forest, inheritanceMap, page, fsCalls>>

\* whether _writeApiItemBody ends with an error for the page of an item: the
\* walks of the diagrams and of the inherited members of a class or interface
\* do not end on a graph with a cycle
BodyDiverges(f, map, apiItem) ==
  /\ f[apiItem].kind \in {"Class", "Interface"}
  /\ LET filename == GetFilenameForApiItem(f, apiItem)
         isClass == f[apiItem].kind = "Class"
     IN \/ isClass /\ WriteClassHierarchySection(f, map, filename, apiItem).diverges
        \/ WriteInterfaceImplementationsSection(f, map, filename, apiItem).diverges
        \/ ~isClass /\ WriteInterfaceImplementorsSection(f, map, filename, apiItem).diverges
        \/ WriteMemberTables(f, map, filename, apiItem).diverges

\* the declarations with a page whose body is never built to the end
DivergingBodies(f, map) == {d \in PageOwners(f) \ {Root} : BodyDiverges(f, map, d)}

NoPages == [calls |-> <<>>, failed |-> FALSE]

\* the files written when a container writes its own page before the pages
\* of its members
RECURSIVE PagesOfContainerFirst(_, _, _, _)
RECURSIVE MemberPagesContainerFirst(_, _, _, _)
MemberPagesContainerFirst(f, diverging, members, fuel) ==
  IF members = <<>> THEN NoPages
  ELSE LET first == PagesOfContainerFirst(f, diverging, Head(members), fuel)
       IN IF first.failed THEN first
          ELSE LET rest == MemberPagesContainerFirst(f, diverging, Tail(members), fuel)
               IN [calls |-> first.calls \o rest.calls, failed |-> rest.failed]

PagesOfContainerFirst(f, diverging, apiItem, fuel) ==
  LET members == SelectSeq(Members(f, apiItem), LAMBDA m : m \in PageOwners(f))
      own == <<[op |-> "writeFileSync", filename |-> GetFilenameForApiItem(f, apiItem),
               item |-> apiItem, package |-> 0]>>
      inner == IF fuel = 0 \/ f[apiItem].kind \notin {"EntryPoint", "Namespace"}
               THEN NoPages
               ELSE MemberPagesContainerFirst(f, diverging, members, fuel - 1)
  IN IF apiItem \in diverging THEN [calls |-> <<>>, failed |-> TRUE]
     ELSE [calls |-> own \o inner.calls, failed |-> inner.failed]

\* the files that _writeApiItemPage writes for an item: the pages of its
\* members, written while its tables are built, then its own page; an error
\* raised while a page is built (the item is one of diverging) ends the run
\* before that page and the pages of its containers are written
RECURSIVE PagesOf(_, _, _, _)
RECURSIVE MemberPages(_, _, _, _)
MemberPages(f, diverging, members, fuel) ==
  IF members = <<>> THEN NoPages
  ELSE LET first == PagesOf(f, diverging, Head(members), fuel)
       IN IF first.failed THEN first
          ELSE LET rest == MemberPages(f, diverging, Tail(members), fuel)
               IN [calls |-> first.calls \o rest.calls, failed |-> rest.failed]

PagesOf(f, diverging, apiItem, fuel) ==
  LET members == SelectSeq(Members(f, apiItem), LAMBDA m : m \in PageOwners(f))
      own == <<[op |-> "writeFileSync", filename |-> GetFilenameForApiItem(f, apiItem),
               item |-> apiItem, package |-> 0]>>
      inner == IF fuel = 0 \/ f[apiItem].kind \notin {"EntryPoint", "Namespace"}
               THEN NoPages
               ELSE MemberPages(f, diverging, members, fuel - 1)
  IN IF apiItem \in diverging THEN [calls |-> <<>>, failed |-> TRUE]
     ELSE IF inner.failed THEN inner
     ELSE [calls |-> inner.calls \o own, failed |-> FALSE]

\* the number of packages whose iteration of the loop has begun
PackagesStarted == Cardinality({i \in DOMAIN log : log[i] = "Writing package"})

\* this._writeApiItemPage({ typeMap, inheritanceMap }, apiPackage)
WritePackagePages ==
  /\ pc = "built"
  /\ \E pages \in {PagesOf(forest, DivergingBodies(forest, inheritanceMap), Root,
                              NumDeclarations(forest) + 1)} :
        /\ fsCalls' = fsCalls \o [i \in DOMAIN pages.calls |->
                                   [pages.calls[i] EXCEPT !.package = PackagesStarted]]
        /\ pc' = IF pages.failed THEN "failed" ELSE "written"
  /\ UNCHANGED <<forest, typeMap, log, visited, inheritanceMap, page>>

\* the loop goes on to the next package of the model: a package with the
\* same declarations or an empty one
NextPackage ==
  /\ pc = "written"
  /\ PackagesStarted < NumPackages
  /\ forest' \in {forest, (Root :> EntryPoint)}
  /\ pc' = "package"
  /\ UNCHANGED <<typeMap, log, visited, inheritanceMap, page, fsCalls>>

NextRun ==
  \/ LoadRunDeclaration
  \/ DeleteOldOutputFiles
  \/ GenerateTypeMappingOfPackage
  \/ GenerateClassHierarchy
  \/ WritePackagePages
  \/ NextPackage

SpecRun == Init /\ [][NextRun]_vars

Cleared == {i \in DOMAIN fsCalls : fsCalls[i].op = "emptyDirSync"}
Written == {i \in DOMAIN fsCalls : fsCalls[i].op = "writeFileSync"}

-----------------------------------------------------------------------------
(* The "Implemented By" diagram of an interface *)

\* the declarations the Inheritance Graph records as children of c
RecordedChildrenOf(c) ==
  IF MapHas(inheritanceMap, c)
  THEN {r.id : r \in {x \in Range(inheritanceMap.refs[c].childClasses)
                             \cup Range(inheritanceMap.refs[c].childInterfaces) :
                        IsApiItem(x)}}
  ELSE {}

RECURSIVE RecordedDescendantsWithin(_, _)
RecordedDescendantsWithin(S, n) ==
  IF n = 0 THEN S
  ELSE RecordedDescendantsWithin(S \cup UNION {RecordedChildrenOf(c) : c \in S}, n - 1)

RecordedDescendants(item) ==
  RecordedDescendantsWithin(RecordedChildrenOf(item), NumDeclarations(forest))

\* C18: on the page of an interface the "Implemented By" diagram lists every
\* declaration recorded as a child of the interface in the Inheritance Graph,
\* the interfaces that extend it and the classes that implement it,
\* recursively through their own children.
C18_ImplementedByListsChildren ==
  (/\ BodyWritten
   /\ ~page.diverges
   /\ forest[page.item].kind = "Interface")
  => \A d \in RecordedDescendants(page.item) :
       /\ page.implementors.heading = "Implemented By"
       /\ \E i \in DOMAIN page.implementors.list :
            page.implementors.list[i].item = Item(d)

-----------------------------------------------------------------------------
(* The pages of a chain of types with overloaded members *)

LoadChainDeclaration ==
  /\ pc = "load"
  /\ \E d \in ChainOptions(forest) :
       forest' = forest @@ ((NumDeclarations(forest) + 1) :> d)
  /\ UNCHANGED <<pc, typeMap, log, visited, inheritanceMap, page, fsCalls>>

NextChains ==
  \/ LoadChainDeclaration
  \/ GenerateTypeMapping
  \/ GenerateClassHierarchy
  \/ WriteApiItemBody

SpecChains == Init /\ [][NextChains]_vars

\* C19: the member merge joins own and inherited members by name: an own
\* member whose name no ancestor declares yields {ownMember, parents: []}, a
\* name only ancestors declare yields {parents: chain}, and every own member
\* whose name is also inherited yields {ownMember, parents: chain} with the
\* full chain of that name; every entry has ownMember or parents[0].
C19_MergeJoinsByName ==
  (BodyWritten /\ ~page.diverges) =>
    LET rm == page.resolvedMembers
        chains == GetInheritedMembers(forest, inheritanceMap, page.item).members
    IN /\ \A i \in DOMAIN rm :
            \/ rm[i].ownMember # NoMember
            \/ rm[i].parents # <<>>
       /\ \A i \in DOMAIN rm :
            rm[i].parents =
              IF EntryName(rm[i]) \in InheritedNames(page.item)
              THEN chains[EntryName(rm[i])] ELSE <<>>
       /\ \A n \in InheritedNames(page.item) \ OwnNames(page.item) :
            \E i \in DOMAIN rm :
              rm[i].ownMember = NoMember /\ rm[i].parents = chains[n]
       /\ \A m \in OwnMembers(page.item) :
            \E i \in DOMAIN rm : rm[i].ownMember = m

-----------------------------------------------------------------------------
(* Properties of the inherited chains *)

\* the ring of ancestors at level k above an item: its parents at level 1,
\* the parents of the declarations of level k - 1 at level k; a declaration
\* reached along paths of several lengths is in several rings
RECURSIVE LevelItems(_, _)
LevelItems(item, k) ==
  IF k = 1 THEN ParentsInOrder(inheritanceMap, item)
  ELSE LET nearer == LevelItems(item, k - 1)
       IN Concat([i \in DOMAIN nearer |->
                    IF IsApiItem(nearer[i])
                    THEN ParentsInOrder(inheritanceMap, nearer[i].id) ELSE <<>>])

\* the members named n of the declarations of level k, in order
NamedMembersAt(item, k, n) ==
  LET ring == LevelItems(item, k)
  IN Concat([i \in DOMAIN ring |->
               IF IsApiItem(ring[i])
               THEN SelectSeq(Members(forest, ring[i].id),
                              LAMBDA m : forest[m].displayName = n)
               ELSE <<>>])

LevelChain(item, n) ==
  Concat([k \in 1..NumDeclarations(forest) |-> NamedMembersAt(item, k, n)])

\* the distance of an ancestor: the nearest level that holds it
Distance(item, a) ==
  CHOOSE k \in 1..NumDeclarations(forest) :
    /\ Item(a) \in Range(LevelItems(item, k))
    /\ \A j \in 1..(k - 1) : Item(a) \notin Range(LevelItems(item, j))

-----------------------------------------------------------------------------
(* Properties of the inheritance note *)

\* C21: a member row is labelled "Inherited from X" exactly when the rendered
\* member is the nearest chain entry itself, which is when the item declares
\* no member of that name; a member with an own declaration and a non-empty
\* chain is labelled "Implements X" or "Overrides X"; a member with an empty
\* chain gets no annotation.
C21_InheritedFromExactlyForChainHead ==
  (BodyWritten /\ ~page.diverges) =>
    \A i \in DOMAIN page.rows :
      LET row == page.rows[i]
          name == forest[row.apiMember].displayName
          inherited == row.note.present /\ row.note.text = "Inherited from "
      IN /\ inherited <=> (row.parents # <<>> /\ row.apiMember = row.parents[1])
         /\ inherited <=> name \notin OwnNames(page.item)
         /\ (row.apiMember \in OwnMembers(page.item) /\ row.parents # <<>>)
              => /\ row.note.present
                 /\ row.note.text \in {"Implements ", "Overrides "}
                 /\ row.note.linkText
                      = GetScopedNameWithinPackage(forest, row.parents[1])
         /\ row.parents = <<>> => ~row.note.present

\* the page of a class that inherits speak and does not declare it
C21_Witness ==
  /\ BodyWritten
  /\ ~page.diverges
  /\ forest[page.item].kind = "Class"
  /\ OwnMembers(page.item) = {}
  /\ \E i \in DOMAIN page.rows :
       /\ page.rows[i].note.text = "Inherited from "
       /\ forest[page.rows[i].apiMember].displayName = "speak"

-----------------------------------------------------------------------------
(* Resolution of base types in nested scopes *)

LoadScopeDeclaration ==
  /\ pc = "load"
  /\ \E d \in ScopeOptions(forest) :
       forest' = forest @@ ((NumDeclarations(forest) + 1) :> d)
  /\ UNCHANGED <<pc, typeMap, log, visited, inheritanceMap, page, fsCalls>>

NextScopes ==
  \/ LoadScopeDeclaration
  \/ GenerateTypeMapping
  \/ GenerateClassHierarchy

SpecScopes == Init /\ [][NextScopes]_vars

\* the name of a type as seen from a scope
NameInScope(scope, name) ==
  IF ScopedNameOf(scope) = "" THEN name ELSE ScopedNameOf(scope) \o "." \o name

\* the scopes that enclose a declaration: its containers up to the package
EnclosingScopes(d) == Range(GetHierarchy(forest, d)) \ {d}

\* the enclosing scopes of d in which the Type Table has an entry for name
ScopesResolving(d, name) ==
  {sc \in EnclosingScopes(d) : NameInScope(sc, name) \in DOMAIN typeMap}

\* the declarations the Inheritance Graph records d as a child of
RecordedParentsOf(d) ==
  {k \in DOMAIN inheritanceMap.refs : d \in RecordedChildrenOf(k)}

\* C22: the base type of a class is the Type Table entry for prefix.name at
\* the innermost enclosing scope of the class where it exists, and if no
\* enclosing scope resolves the name the bare name is kept as a plain-text
\* label that creates no reverse edge.
C22_InnermostEnclosingScopeWins ==
  pc = "built" =>
    \A c \in Declarations :
      (forest[c].kind = "Class" /\ forest[c].extendsType # "" /\ MapHas(inheritanceMap, c))
      => LET name == forest[c].extendsType
             scopes == ScopesResolving(c, name)
             parentClass == inheritanceMap.refs[c].parentClass
         IN IF scopes = {}
            THEN parentClass = Label(name) /\ RecordedParentsOf(c) = {}
            ELSE LET innermost == CHOOSE sc \in scopes :
                                    \A other \in scopes : Depth(other) <= Depth(sc)
                 IN /\ parentClass = Item(typeMap[NameInScope(innermost, name)])
                    /\ RecordedParentsOf(c) = {parentClass.id}

-----------------------------------------------------------------------------
(* Paths of the members of classes and interfaces *)

\* the anchor the members of a page are known by
AnchorOfMember(d) ==
  d.displayName
    \o (IF d.kind \in {"Method", "MethodSignature"} THEN "-method"
        ELSE IF d.isEventProperty THEN "-event" ELSE "-property")
    \o (IF d.isStatic THEN "-static" ELSE "")
    \o (IF d.kind \in {"Method", "MethodSignature"} /\ d.overloadIndex > 0
        THEN "-" \o IndexToString(d.overloadIndex) ELSE "")

\* C23: a Method, MethodSignature, Property or PropertySignature contributes
\* no path segment: its path is the path of its containing page followed by
\* #anchor, the anchor being displayName-method, displayName-property or
\* displayName-event, then -static for a static member, then -overloadIndex
\* for an overload beyond the first.
C23_MemberPathIsPageWithAnchor ==
  (page.op = "link" /\ forest[page.target].kind \in TableKinds) =>
    LET member == forest[page.target]
        pagePath == GetFilenameForApiItem(forest, member.parent)
        n == Len(pagePath)
    IN /\ Len(page.targetFilename) = n
       /\ page.targetFilename
            = [pagePath EXCEPT ![n] = @ \o "#" \o AnchorOfMember(member)]

\* the path of the second overload of a static method of a class
C23_Witness ==
  /\ page.op = "link"
  /\ forest[page.target].kind = "Method"
  /\ forest[page.target].isStatic
  /\ forest[page.target].overloadIndex = 1
  /\ page.targetFilename = <<"classes", "foo.md#run-method-static-1">>

-----------------------------------------------------------------------------
(* The markdown emitter: lists *)

\* the output of the writer: the pieces written so far, NewLine for "\n"
NewLine == "\n"

\* IndentedWriter.ensureNewLine: ends the line the writer is in, if any
EnsureNewLine(w) ==
  IF w = <<>> \/ w[Len(w)] = NewLine THEN w ELSE Append(w, NewLine)

\* IndentedWriter.ensureSkippedLine: ends the line and leaves one blank line,
\* never more than one
EnsureSkippedLine(w) ==
  LET ended == EnsureNewLine(w)
  IN IF Len(ended) >= 2 /\ ended[Len(ended) - 1] # NewLine
     THEN Append(ended, NewLine) ELSE ended

PlainTextNode(text) == [kind |-> "PlainText", text |-> text, nodes |-> <<>>]

ListNode(nodes) == [kind |-> "List", text |-> "", nodes |-> nodes]

\* '  '.repeat((context.listLevel - 1) * 2)
Indentation(listLevel) == [i \in 1..((listLevel - 1) * 2) |-> "  "]

\* writeNode for a List node, and the loop over its nodes: the writer and
\* context.listLevel after it
RECURSIVE WriteListNodes(_, _, _)
RECURSIVE WriteList(_, _, _)
WriteListNodes(w, nodes, listLevel) ==
  IF nodes = <<>> THEN [writer |-> w, listLevel |-> listLevel]
  ELSE LET node == Head(nodes)
           written ==
             IF node.kind = "List" THEN WriteList(w, node, listLevel)
             ELSE [writer |-> EnsureNewLine(w) \o Indentation(listLevel)
                                \o <<"- ", node.text>>,
                   listLevel |-> listLevel]
       IN WriteListNodes(written.writer, Tail(nodes), written.listLevel)

WriteList(w, docList, listLevel) ==
  LET entered == listLevel + 1
      start == IF entered = 1 THEN EnsureSkippedLine(w) ELSE w
      body == WriteListNodes(start, docList.nodes, entered)
      left == body.listLevel - 1
  IN [writer |-> IF left = 1 THEN EnsureSkippedLine(body.writer) ELSE body.writer,
      listLevel |-> left]

\* the sequences of length 1..MaxListLen over a set of nodes
RECURSIVE NodeSeqsOfLen(_, _)
NodeSeqsOfLen(S, n) ==
  IF n = 0 THEN {<<>>}
  ELSE {Append(q, x) : q \in NodeSeqsOfLen(S, n - 1), x \in S}

NodeSeqs(S) == UNION {NodeSeqsOfLen(S, n) : n \in 1..MaxListLen}

Leaves == {PlainTextNode("a")}

\* the lists of a document: flat lists, lists with flat lists among their
\* nodes, and the lists of _createTypeTree for a chain of three levels
FlatLists == {ListNode(q) : q \in NodeSeqs(Leaves)}

NestedLists == {ListNode(q) : q \in NodeSeqs(Leaves \cup FlatLists)}

DeepLists ==
  {ListNode(<<PlainTextNode("a"), inner>>) : inner \in NestedLists}

\* this.writeNode(docList, context, false) after nothing or after the text
\* of a paragraph, with context.listLevel = 0
EmitList ==
  /\ page.op = "none"
  /\ \E docList \in NestedLists \cup DeepLists, before \in {<<>>, <<"text">>} :
       LET written == WriteList(before, docList, 0)
       IN page' = [op |-> "list", docList |-> docList, before |-> before,
                   writer |-> written.writer, listLevel |-> written.listLevel]
  /\ UNCHANGED <<forest, pc, typeMap, log, visited, inheritanceMap, fsCalls>>

NextLists == EmitList

SpecLists == Init /\ [][NextLists]_vars

RECURSIVE LeafCount(_)
LeafCount(node) ==
  IF node.kind # "List" THEN 1
  ELSE LET leaves == [i \in DOMAIN node.nodes |->
                        [j \in 1..LeafCount(node.nodes[i]) |-> i]]
       IN Len(Concat(leaves))

\* the positions of the writer at which a blank line ends
BlankLines(w) == {i \in 2..Len(w) : w[i] = NewLine /\ w[i - 1] = NewLine}

Bullets(w) == {i \in DOMAIN w : w[i] = "- "}

\* C24: entering list depth 1 ensures a preceding blank line and leaving it
\* ensures a trailing blank line; nested lists write no bullet of their own
\* and no blank line comes between the items of the outermost list; listLevel
\* is back to 0 after the outermost list.
C24_BlankLinesAroundOutermostList ==
  page.op = "list" =>
    LET w == page.writer
        n == Len(w)
        b == Len(page.before)
    IN /\ page.listLevel = 0
       /\ SubSeq(w, 1, b) = page.before
       /\ b > 0 => (w[b + 1] = NewLine /\ w[b + 2] = NewLine)
       /\ Cardinality(Bullets(w)) = LeafCount(page.docList)
       /\ \A i \in BlankLines(w) : \A j \in Bullets(w) : \A k \in Bullets(w) :
            ~(j < i /\ i < k)
       /\ w[n] = NewLine /\ w[n - 1] = NewLine

-----------------------------------------------------------------------------
(* Properties of the order of the pages *)

PageFile(d) == GetFilenameForApiItem(forest, d)

\* the declarations with a page that a package or namespace lists, directly
\* or in a namespace it lists
ListedUnder(d) ==
  {m \in PageOwners(forest) \ {d} : d \in Range(GetHierarchy(forest, m))}

\* the pages whose body ends with an error
FailingPages ==
  {x \in PageOwners(forest) : BodyDiverges(forest, inheritanceMap, x)}

\* C25: page files are written in post-order: the page of a package or
\* namespace is written only after the pages of all the members it lists,
\* recursively, so an error raised while a member page is built leaves the
\* page of every container of that member, the package index page included,
\* unwritten; without an error every page is written.
C25_PagesWrittenInPostOrder ==
  [][(pc = "built" /\ pc' # pc) =>
       LET new == SubSeq(fsCalls', Len(fsCalls) + 1, Len(fsCalls'))
           at(d) == {i \in DOMAIN new :
                       new[i].item = d /\ new[i].filename = PageFile(d)}
       IN /\ \A d \in PageOwners(forest) : \A i \in at(d) :
               \A m \in ListedUnder(d) : \E j \in at(m) : j < i
          /\ \A x \in FailingPages :
               \A a \in Range(GetHierarchy(forest, x)) : at(a) = {}
          /\ FailingPages = {} =>
               \A d \in PageOwners(forest) : at(d) # {}]_vars

\* a run that ended with an error in the page of a class inside a namespace,
\* after the page of an earlier member of the package was written
C25_Witness ==
  /\ pc = "failed"
  /\ \E x \in FailingPages : forest[forest[x].parent].kind = "Namespace"
  /\ Written # {}
  /\ \A i \in Written : fsCalls[i].item # Root

\* C26: within one run no two distinct declarations with a page, of one
\* package or of two, are written to the same output path.
C26_NoTwoPagesShareAPath ==
  \A i, j \in Written :
    fsCalls[i].filename = fsCalls[j].filename
      => /\ fsCalls[i].package = fsCalls[j].package
         /\ fsCalls[i].item = fsCalls[j].item

-----------------------------------------------------------------------------
(* The pages of a lattice of interfaces *)

LoadDiamondDeclaration ==
  /\ pc = "load"
  /\ \E d \in DiamondOptions(forest) :
       forest' = forest @@ ((NumDeclarations(forest) + 1) :> d)
  /\ UNCHANGED <<pc, typeMap, log, visited, inheritanceMap, page, fsCalls>>

NextDiamonds ==
  \/ LoadDiamondDeclaration
  \/ GenerateTypeMapping
  \/ GenerateClassHierarchy
  \/ WriteApiItemBody

SpecDiamonds == Init /\ [][NextDiamonds]_vars

\* how often x occurs in the sequence s
Occurrences(s, x) == Cardinality({i \in DOMAIN s : s[i] = x})

RECURSIVE PathsWithin(_, _, _)
\* the number of inheritance paths of at most n edges from item up to ancestor
PathsWithin(item, ancestor, n) ==
  IF n = 0 THEN 0
  ELSE LET ups == ParentsInOrder(inheritanceMap, item)
           via[i \in 0..Len(ups)] ==
             IF i = 0 THEN 0
             ELSE via[i - 1]
                  + (IF IsApiItem(ups[i])
                     THEN (IF ups[i].id = ancestor THEN 1 ELSE 0)
                          + PathsWithin(ups[i].id, ancestor, n - 1)
                     ELSE 0)
       IN via[Len(ups)]

Paths(item, ancestor) == PathsWithin(item, ancestor, NumDeclarations(forest))

-----------------------------------------------------------------------------
(* The nodes of the pages of a package: kinds and heading levels *)

\* the kind of an item; Root stands for the package that generateFiles passes
KindOf(f, apiItem) == IF apiItem = Root THEN "Package" ELSE f[apiItem].kind

\* the kinds the switch of _writeApiItemPage has a case for
PageSwitchKinds ==
  {"Class", "Enum", "Interface", "Method", "MethodSignature", "Function",
   "Namespace", "Package", "Property", "PropertySignature", "TypeAlias", "Variable"}

\* the kinds the switch of _writeApiItemBody has a case for
BodySwitchKinds ==
  {"Class", "Enum", "Interface", "Method", "MethodSignature", "Function",
   "Namespace", "Package", "Property", "PropertySignature", "TypeAlias", "Variable"}

\* what the construction of a page has done so far: the headings constructed,
\* the items passed to _writeApiItemPage and to _writeApiItemBody, and how it
\* ended: "ok", or the error that ended it
Built(headings, pages, bodies, status) ==
  [headings |-> headings, pages |-> pages, bodies |-> bodies, status |-> status]

Nothing == Built(<<>>, <<>>, <<>>, "ok")

Thrown(error) == Built(<<>>, <<>>, <<>>, error)

\* what has been done when b is done after a, unless a has thrown
ThenOf(a, b) ==
  IF a.status # "ok" THEN a
  ELSE Built(a.headings \o b.headings, a.pages \o b.pages, a.bodies \o b.bodies,
             b.status)

\* b is done after a, unless a has thrown
Then(a, b) == CHOOSE done \in {ThenOf(x, y) : x \in {a}, y \in {b}} : TRUE

RECURSIVE InOrderOf(_)
InOrderOf(steps) ==
  IF steps = <<>> THEN Nothing ELSE Then(Head(steps), InOrderOf(Tail(steps)))

\* the steps one after the other, up to the first that throws
InOrder(steps) == CHOOSE done \in {InOrderOf(s) : s \in {steps}} : TRUE

\* new DocHeading({ title, level })
NewDocHeading(title, level, role, apiItem) ==
  IF level < 1 \/ level > 5 THEN Thrown("IDocHeadingParameters.level")
  ELSE Built(<<[title |-> title, level |-> level, role |-> role, item |-> apiItem]>>,
             <<>>, <<>>, "ok")

\* the level of the heading of a member's details and of the context of the
\* member's body
DetailLevelTooDeep(level) == level + 3

DetailLevel(level) == level + 2

SectionLevel(level) == level + 1

\* the heading of a hierarchy diagram
DiagramHeading(section, level, apiItem) ==
  IF section.diverges THEN Thrown("diverges")
  ELSE IF section.heading = "" THEN Nothing
  ELSE NewDocHeading(section.heading, SectionLevel(level), "section", apiItem)

\* the heading of a table or details section that has content
SectionHeading(hasContent, title, level, apiItem) ==
  IF hasContent THEN NewDocHeading(title, SectionLevel(level), "section", apiItem)
  ELSE Nothing

ClassTables ==
  <<"Static Events", "Events", "Static Properties", "Properties",
    "Static Methods", "Methods">>

InterfaceTables == <<"Events", "Properties", "Methods">>

DetailsTitle(table) ==
  CASE table = "Static Events" -> "Static Event Details"
    [] table = "Events" -> "Event Details"
    [] table = "Static Properties" -> "Static Property Details"
    [] table = "Properties" -> "Property Details"
    [] table = "Static Methods" -> "Static Method Details"
    [] table = "Methods" -> "Method Details"

\* the tables of _writePackageOrNamespaceTables, in the order they are appended
MemberTables ==
  <<[kind |-> "Class", title |-> "Classes"],
    [kind |-> "Enum", title |-> "Enumerations"],
    [kind |-> "Function", title |-> "Functions"],
    [kind |-> "Interface", title |-> "Interfaces"],
    [kind |-> "Namespace", title |-> "Namespaces"],
    [kind |-> "Variable", title |-> "Variables"],
    [kind |-> "TypeAlias", title |-> "Type Aliases"]>>

\* what the body of a class or interface is built from: its hierarchy
\* diagrams, in the order they are written, and its member tables
TypeBody(f, map, apiItem) ==
  LET filename == GetFilenameForApiItem(f, apiItem)
      implementations ==
        WriteInterfaceImplementationsSection(f, map, filename, apiItem)
  IN [diagrams |->
        IF f[apiItem].kind = "Class"
        THEN <<WriteClassHierarchySection(f, map, filename, apiItem), implementations>>
        ELSE <<implementations,
               WriteInterfaceImplementorsSection(f, map, filename, apiItem)>>,
      tables |-> WriteMemberTables(f, map, filename, apiItem)]

TypeBodies(f, map) ==
  [d \in {x \in DOMAIN f \ {Root} : f[x].kind \in {"Class", "Interface"}} |->
     TypeBody(f, map, d)]

RECURSIVE WriteApiItemPageNodes(_, _, _, _)
RECURSIVE WriteApiItemBodyNodes(_, _, _, _, _)

\* _writeClassTables / _writeInterfaceTables: the rows and details of the
\* resolved members, then the headings of the tables and details sections
WriteTypeTablesNodes(f, bodies, in, level, apiItem) ==
  LET tables == bodies[apiItem].tables
      rows == tables.rows
      titles == IF f[apiItem].kind = "Class" THEN ClassTables ELSE InterfaceTables
      shown(t) == \E i \in DOMAIN rows : rows[i].table = t
      detailed(t) == \E i \in DOMAIN rows : rows[i].table = t /\ rows[i].details
  IN IF tables.diverges THEN Thrown("diverges")
     ELSE InOrder(
            [i \in DOMAIN rows |->
               IF rows[i].details /\ rows[i].table \in Range(titles)
               THEN Then(NewDocHeading("signature", DetailLevel(level), "detail",
                                       rows[i].apiMember),
                         WriteApiItemBodyNodes(f, bodies, in, DetailLevel(level),
                                               rows[i].apiMember))
               ELSE Nothing]
            \o [i \in DOMAIN titles |->
                  SectionHeading(shown(titles[i]), titles[i], level, apiItem)]
            \o [i \in DOMAIN titles |->
                  SectionHeading(detailed(titles[i]), DetailsTitle(titles[i]),
                                 level, apiItem)])

\* _writePackageOrNamespaceTables: a row and a page for every member of a
\* kind with a case, then the headings of the tables
WritePackageOrNamespaceTablesNodes(f, bodies, in, level, apiItem) ==
  LET apiMembers == Members(f, apiItem)
  IN InOrder(
       [i \in DOMAIN apiMembers |->
          IF f[apiMembers[i]].kind \in PageKinds
          THEN WriteApiItemPageNodes(f, bodies, in, apiMembers[i])
          ELSE Nothing]
       \o [i \in DOMAIN MemberTables |->
             SectionHeading(\E j \in DOMAIN apiMembers :
                              f[apiMembers[j]].kind = MemberTables[i].kind,
                            MemberTables[i].title, level, apiItem)])

\* _writeApiItemBody(context, apiItem): in.examples are the items whose doc
\* comment holds an @example block, in.parameters the items with parameters
WriteApiItemBodyNodes(f, bodies, in, level, apiItem) ==
  LET kind == KindOf(f, apiItem)
      diagrams ==
        IF kind \in {"Class", "Interface"}
        THEN [i \in DOMAIN bodies[apiItem].diagrams |->
                DiagramHeading(bodies[apiItem].diagrams[i], level, apiItem)]
        ELSE <<>>
      examples == SectionHeading(apiItem \in in.examples, "Example", level, apiItem)
      tables ==
        IF kind \in {"Class", "Interface"}
        THEN WriteTypeTablesNodes(f, bodies, in, level, apiItem)
        ELSE IF kind = "Enum"
        THEN SectionHeading(Members(f, apiItem) # <<>>, "Enumeration Members",
                            level, apiItem)
        ELSE IF kind \in {"Method", "MethodSignature", "Function"}
        THEN SectionHeading(apiItem \in in.parameters, "Parameters", level, apiItem)
        ELSE IF kind \in {"Namespace", "Package"}
        THEN WritePackageOrNamespaceTablesNodes(f, bodies, in, level, apiItem)
        ELSE IF kind \in BodySwitchKinds THEN Nothing
        ELSE Thrown("Unsupported API item kind")
  IN InOrder(<<Built(<<>>, <<>>, <<apiItem>>, "ok")>>
             \o diagrams \o <<examples, tables>>)

\* _writeApiItemPage(baseContext, apiItem), up to the emission of the page
WriteApiItemPageNodes(f, bodies, in, apiItem) ==
  IF KindOf(f, apiItem) \notin PageSwitchKinds
  THEN Then(Built(<<>>, <<apiItem>>, <<>>, "ok"), Thrown("Unsupported API item kind"))
  ELSE InOrder(<<Built(<<>>, <<apiItem>>, <<>>, "ok"),
                 NewDocHeading("title", 1, "page", apiItem),
                 WriteApiItemBodyNodes(f, bodies, in, 1, apiItem)>>)

\* the prefix the emitter writes before the title of a heading
HeadingPrefix(level) ==
  CASE level = 1 -> "#"
    [] level = 2 -> "##"
    [] level = 3 -> "###"
    [] OTHER -> "####"

\* the doc comments and signatures of the package: one declaration at most
\* has an @example block, and that one has parameters or not
AtMostOneOf(S) == {{}} \cup {{d} : d \in S}

LoadKindDeclaration ==
  /\ pc = "load"
  /\ \E d \in KindOptions(forest) :
       forest' = forest @@ ((NumDeclarations(forest) + 1) :> d)
  /\ UNCHANGED <<pc, typeMap, log, visited, inheritanceMap, page, fsCalls>>

\* this._writeApiItemPage({ typeMap, inheritanceMap }, apiPackage), as far as
\* the nodes it constructs go
BuildPackagePages ==
  /\ pc = "built"
  /\ page.op = "none"
  /\ \E examples \in AtMostOneOf(DOMAIN forest \ {Root}) :
       \E parameters \in {{}, {d \in examples :
                                 forest[d].kind \in {"Method", "MethodSignature",
                                                     "Function"}}} :
         \E built \in {WriteApiItemPageNodes(forest,
                          TypeBodies(forest, inheritanceMap),
                          [examples |-> examples, parameters |-> parameters], Root)} :
           page' = [op |-> "nodes", examples |-> examples,
                    parameters |-> parameters, built |-> built,
                    prefixes |-> [i \in DOMAIN built.headings |->
                                    HeadingPrefix(built.headings[i].level)]]
  /\ UNCHANGED <<forest, pc, typeMap, log, visited, inheritanceMap, fsCalls>>

NextKinds ==
  \/ LoadKindDeclaration
  \/ GenerateTypeMapping
  \/ GenerateClassHierarchy
  \/ BuildPackagePages

SpecKinds == Init /\ [][NextKinds]_vars

NodesBuilt == page.op = "nodes"

\* the declarations the pages have no case for
Skipped ==
  {d \in DOMAIN forest \ {Root} :
     \/ /\ KindOf(forest, forest[d].parent) \in {"Package", "Namespace"}
        /\ forest[d].kind \notin PageKinds
     \/ /\ forest[forest[d].parent].kind \in {"Class", "Interface"}
        /\ forest[d].kind \notin TableKinds
     \/ forest[forest[d].parent].kind = "Enum"}

\* C28: generateFiles never raises the "Unsupported API item kind" error:
\* only kinds with a case are passed to _writeApiItemPage and to
\* _writeApiItemBody, and the members of a package or namespace whose kind
\* has no page and the class or interface members that are neither methods
\* nor properties get no page and no body.
C28_NoUnsupportedKindIsRaised ==
  NodesBuilt =>
    /\ page.built.status # "Unsupported API item kind"
    /\ \A i \in DOMAIN page.built.pages :
         KindOf(forest, page.built.pages[i]) \in PageSwitchKinds
    /\ \A i \in DOMAIN page.built.bodies :
         KindOf(forest, page.built.bodies[i]) \in BodySwitchKinds
    /\ \A d \in Skipped :
         /\ d \notin Range(page.built.pages)
         /\ d \notin Range(page.built.bodies)

\* the pages of a package with a member without a page in a namespace and a
\* constructor in a class are built to the end
C28_Witness ==
  /\ NodesBuilt
  /\ page.built.status = "ok"
  /\ \E d \in Skipped :
       /\ forest[d].parent # Root
       /\ forest[forest[d].parent].kind = "Namespace"
  /\ \E d \in Skipped :
       /\ forest[forest[d].parent].kind \in {"Class", "Interface"}
       /\ forest[d].kind = "Constructor"
       /\ forest[d].parent \in Range(page.built.bodies)

\* a heading of the body of a member's details
InDetailBody(h) ==
  h.role = "section" /\ forest[forest[h.item].parent].kind \in {"Class", "Interface"}

\* C29: every DocHeading constructed during generateFiles has a level between
\* 1 and 4: page headings are level 1, section headings level 2, member
\* detail headings level 3 and headings inside a member detail body level 4;
\* the range check of the DocHeading constructor never throws and the prefix
\* the emitter writes has as many # as the level.
C29_HeadingLevelsAreOneToFour ==
  NodesBuilt =>
    /\ page.built.status # "IDocHeadingParameters.level"
    /\ \A i \in DOMAIN page.built.headings :
         LET h == page.built.headings[i]
         IN /\ h.level \in 1..4
            /\ h.role = "page" => h.level = 1
            /\ (h.role = "section" /\ ~InDetailBody(h)) => h.level = 2
            /\ h.role = "detail" => h.level = 3
            /\ InDetailBody(h) => h.level = 4
            /\ Len(page.prefixes[i]) = h.level

\* the pages of a package with a class whose method has an @example block or
\* parameters: the headings of the page, of a table, of the method's details
\* and of a section of the details are constructed
C29_Witness ==
  /\ NodesBuilt
  /\ page.built.status = "ok"
  /\ \E i, j, k, l \in DOMAIN page.built.headings :
       /\ page.built.headings[i].role = "page" /\ page.built.headings[i].level = 1
       /\ page.built.headings[j].role = "section" /\ page.built.headings[j].level = 2
       /\ page.built.headings[k].role = "detail" /\ page.built.headings[k].level = 3
       /\ InDetailBody(page.built.headings[l]) /\ page.built.headings[l].level = 4
       /\ page.built.headings[l].item = page.built.headings[k].item

-----------------------------------------------------------------------------
(* The insideTable flag of the emitter *)

\* the section that is passed to emit
DocRoot == 0

\* a node of a document: a code span, a table or a cell of a table, with the
\* node that holds it (a cell holds the nodes of its content section)
DocNode(kind, parent) == [kind |-> kind, parent |-> parent]

\* the nodes of container n in document order
RECURSIVE NodesFrom(_, _, _)
NodesFrom(doc, n, i) ==
  IF i > Len(doc) THEN <<>>
  ELSE IF doc[i].parent = n THEN <<i>> \o NodesFrom(doc, n, i + 1)
       ELSE NodesFrom(doc, n, i + 1)

Nodes(doc, n) == NodesFrom(doc, n, 1)

\* the nodes a document can get one more of: a code span or a table in the
\* section or in a cell, a cell in a table
DocNodeOptions(doc) ==
  LET sections == {DocRoot} \cup {i \in DOMAIN doc : doc[i].kind = "Cell"}
      tables == {i \in DOMAIN doc : doc[i].kind = "Table"}
  IN IF Len(doc) < NumDocNodes
     THEN {DocNode(k, p) : k \in {"CodeSpan", "Table"}, p \in sections}
          \cup {DocNode("Cell", t) : t \in tables}
     ELSE {}

\* context.insideTable = false, the last statement of the table case
AfterTable(before) == FALSE

RECURSIVE WriteDocNode(_, _, _)
RECURSIVE WriteDocNodes(_, _, _)
\* writeNodes: the nodes one after the other on the one context
WriteDocNodes(doc, nodes, context) ==
  IF nodes = <<>> THEN context
  ELSE WriteDocNodes(doc, Tail(nodes), WriteDocNode(doc, Head(nodes), context))

\* writeNode(docNode, context, hasNextSibling): the context after the node,
\* with the value of insideTable that every code span and every cell has met
WriteDocNode(doc, n, context) ==
  LET met == [context EXCEPT !.written =
                Append(@, [node |-> n, insideTable |-> context.insideTable])]
  IN IF doc[n].kind = "CodeSpan" THEN met
     ELSE IF doc[n].kind = "Cell" THEN WriteDocNodes(doc, Nodes(doc, n), met)
     ELSE LET inside == [context EXCEPT !.insideTable = TRUE]
              cells == WriteDocNodes(doc, Nodes(doc, n), inside)
          IN [cells EXCEPT !.insideTable = AfterTable(context.insideTable)]

\* emit(stringBuilder, docNode, options): a new context with insideTable false
Emit(doc) ==
  WriteDocNodes(doc, Nodes(doc, DocRoot), [insideTable |-> FALSE, written |-> <<>>])

\* one more node is appended to the document that is being built
AppendDocNode ==
  /\ page.op \in {"none", "document"}
  /\ LET doc == IF page.op = "none" THEN <<>> ELSE page.doc
     IN \E node \in DocNodeOptions(doc) :
          page' = [op |-> "document", doc |-> Append(doc, node)]
  /\ UNCHANGED <<forest, pc, typeMap, log, visited, inheritanceMap, fsCalls>>

\* the document is emitted
EmitDocument ==
  /\ page.op = "document"
  /\ LET context == Emit(page.doc)
     IN page' = [op |-> "emitted", doc |-> page.doc,
                 written |-> context.written, insideTable |-> context.insideTable]
  /\ UNCHANGED <<forest, pc, typeMap, log, visited, inheritanceMap, fsCalls>>

NextFlags == AppendDocNode \/ EmitDocument

SpecFlags == Init /\ [][NextFlags]_vars

\* node n is a cell or part of the content of a cell
RECURSIVE InsideCell(_, _)
InsideCell(doc, n) ==
  IF n = DocRoot THEN FALSE
  ELSE doc[n].kind = "Cell" \/ InsideCell(doc, doc[n].parent)

\* C30: while the emitter writes the content of a table cell insideTable is
\* true, and it is false outside every table, also for a table nested inside
\* a cell of another table; insideTable is false when emit returns.
C30_InsideTableExactlyInCells ==
  page.op = "emitted" =>
    /\ ~page.insideTable
    /\ \A i \in DOMAIN page.written :
         page.written[i].insideTable = InsideCell(page.doc, page.written[i].node)

====
